---- MODULE Spec2Model ----
(***************************************************************************)
(* Model of the resolution-hook subsystem of docnote_extract               *)
(* (src/src_py/docnote_extract/_extraction.py): the import finder/loader,  *)
(* the tracking registry, the stub policy and the extraction coordinator   *)
(* discover_and_extract.                                                   *)
(*                                                                         *)
(* A module name is the tuple of its dotted components, so that            *)
(* fullname.partition('.')[0] is Head(name).                               *)
(***************************************************************************)
EXTENDS Naturals, Sequences, FiniteSets, TLC

\* ------------------------------------------------------------------ bounds
MaxRuns == 2
MaxDepth == 2

\* ------------------------------------------------------------ module names
DC == <<"dataclasses">>
JSON == <<"json">>
PYTEST == <<"pytest">>
APP == <<"app">>
PKGA == <<"pkg", "a">>
PKGB == <<"pkg", "b">>
TYPESHED == <<"_typeshed">>

Names == {DC, JSON, PYTEST, APP, PKGA, PKGB, TYPESHED}

\* unset value of the _MODULE_TO_INSPECT context variable
NoName == <<>>

\* sys.stdlib_module_names, restricted to the packages of Names
StdlibModuleNames == {"dataclasses", "json"}

NOHOOK_PACKAGES ==
    {"docnote", "docnote_extract", "py", "pytest", "_pytest", "_virtualenv",
     "typing_extensions"}

\* modules for which the host's own finders find source on disk
\* (_typeshed is a stub-only package and cannot be imported for real)
Installed == Names \ {TYPESHED}

\* an entry of sys.meta_path: an _ExtractionFinderLoader object, with its
\* known_clean_modules, or a finder of the host. discover_and_extract is
\* called on a loader made for that call (_gathering.gather); id is the number
\* of the call, 0 for a loader the host has made and installed itself
Loader(id, known_clean_modules) ==
    [loader |-> TRUE, id |-> id, known_clean |-> known_clean_modules]

\* the host's own finder, always last in sys.meta_path
PathFinder == [loader |-> FALSE, id |-> 0, known_clean |-> {}]

HostLoader == Loader(0, {})

PackageName(n) == Head(n)

\* --------------------------------------------------- objects in sys.modules
\* kind of the module object bound to a name in sys.modules
\*   absent          : name not in sys.modules
\*   orig            : object loaded by the host before the run
\*   real            : object loaded by the host's finders during a run
\*   shim            : the patched dataclasses module
\*   stub            : placeholder with the _stubbed_getattr hook
\*   track_wrapped   : delegating tracking wrapper (_wrapped_tracking_getattr)
\*   track_firstparty: _FirstpartyTrackingModule re-exec'd from source
\*   inspect         : the module under inspection
\*   typeshed        : the fake _typeshed module
Kinds == {"absent", "orig", "real", "shim", "stub", "track_wrapped",
          "track_firstparty", "inspect", "typeshed"}

NoModules == [n \in Names |-> "absent"]

LoadedNames(mods) == {n \in Names : mods[n] # "absent"}

\* --------------------------------------------------------- _ExtractionPhase
PhaseUnset == "unset"
HOOKED == "hooked"
EXPLORATION == "exploration"
PREPARATION == "preparation"
EXTRACTION == "extraction"

\* ------------------------------------------------------------ _StubStrategy
STUB == "stub"
INSPECT == "inspect"
TRACK == "track"

\* -------------------------------------------------------------- StubsConfig
\* global_allowlist: [present |-> FALSE] is None
NoAllowlist == [present |-> FALSE, names |-> {}]
Allowlist(s) == [present |-> TRUE, names |-> s]

\* the configurations a run is checked under; unpurgeable is the content of
\* UNPURGEABLE_MODULES, preloaded the hookable modules the host had imported
\* before the first run
CfgAllowFirstparty ==
    [firstparty_packages |-> {"pkg"}, enable_stubs |-> TRUE,
     global_allowlist |-> Allowlist({PKGA, JSON}),
     firstparty_blocklist |-> {}, thirdparty_blocklist |-> {},
     unpurgeable |-> {}, preloaded |-> {PKGA}]

CfgAllowThirdparty ==
    [firstparty_packages |-> {"app"}, enable_stubs |-> TRUE,
     global_allowlist |-> Allowlist({PKGA}),
     firstparty_blocklist |-> {}, thirdparty_blocklist |-> {},
     unpurgeable |-> {}, preloaded |-> {}]

CfgBlocklist ==
    [firstparty_packages |-> {"pkg"}, enable_stubs |-> TRUE,
     global_allowlist |-> NoAllowlist,
     firstparty_blocklist |-> {PKGB}, thirdparty_blocklist |-> {"pytest"},
     unpurgeable |-> {APP}, preloaded |-> {}]

Configs == {CfgAllowFirstparty, CfgAllowThirdparty, CfgBlocklist}

\* use_stub_strategy with the allowlist consulted before the standard
\* library and NOHOOK_PACKAGES
UseStubStrategyAllowlistFirst(c, module_fullname) ==
    LET package_name == PackageName(module_fullname) IN
    IF c.enable_stubs /\ c.global_allowlist.present
       /\ module_fullname \in c.global_allowlist.names
    THEN "True"
    ELSE IF package_name \in StdlibModuleNames
            \/ package_name \in NOHOOK_PACKAGES
    THEN "None"
    ELSE IF ~c.enable_stubs
    THEN "False"
    ELSE IF ~c.global_allowlist.present
    THEN IF \/ module_fullname \in c.firstparty_blocklist
            \/ package_name \in c.thirdparty_blocklist
         THEN "False"
         ELSE "True"
    ELSE "False"

\* use_stub_strategy with the allowlist looked up by package name instead of
\* by full module name
UseStubStrategyByPackage(c, module_fullname) ==
    LET package_name == PackageName(module_fullname) IN
    IF package_name \in StdlibModuleNames \/ package_name \in NOHOOK_PACKAGES
    THEN "None"
    ELSE IF ~c.enable_stubs
    THEN "False"
    ELSE IF ~c.global_allowlist.present
    THEN IF \/ module_fullname \in c.firstparty_blocklist
            \/ package_name \in c.thirdparty_blocklist
         THEN "False"
         ELSE "True"
    ELSE IF <<package_name>> \in c.global_allowlist.names
    THEN "True"
    ELSE "False"

\* use_stub_strategy with the blocklists consulted whether or not there is an
\* allowlist
UseStubStrategyBlocklistsFirst(c, module_fullname) ==
    LET package_name == PackageName(module_fullname) IN
    IF package_name \in StdlibModuleNames \/ package_name \in NOHOOK_PACKAGES
    THEN "None"
    ELSE IF ~c.enable_stubs
    THEN "False"
    ELSE IF \/ module_fullname \in c.firstparty_blocklist
            \/ package_name \in c.thirdparty_blocklist
    THEN "False"
    ELSE IF ~c.global_allowlist.present
    THEN "True"
    ELSE IF module_fullname \in c.global_allowlist.names
    THEN "True"
    ELSE "False"

\* StubsConfig.use_stub_strategy: "True" stub, "False" track, "None" bypass
UseStubStrategy(c, module_fullname) ==
    LET package_name == PackageName(module_fullname) IN
    IF package_name \in StdlibModuleNames \/ package_name \in NOHOOK_PACKAGES
    THEN "None"
    ELSE IF ~c.enable_stubs
    THEN "False"
    ELSE IF ~c.global_allowlist.present
    THEN IF \/ module_fullname \in c.firstparty_blocklist
            \/ package_name \in c.thirdparty_blocklist
         THEN "False"
         ELSE "True"
    ELSE IF module_fullname \in c.global_allowlist.names
    THEN "True"
    ELSE "False"

\* ------------------------------------------------------- tracking registry
\* TrackingRegistry: dict[int, TrackingImportSource | None]; a key that is
\* not in the dict is MISSING, the value None is the tombstone
ObjIds == {"o1", "o2"}
Attrs == {"K", "f", "__file__"}

MISSING == [tag |-> "missing", unit |-> NoName, attr |-> ""]
Tombstone == [tag |-> "none", unit |-> NoName, attr |-> ""]
Origin(unit, attr) == [tag |-> "origin", unit |-> unit, attr |-> attr]

\* the unset value of the _ACTIVE_TRACKING_REGISTRY context variable
NoReg == [active |-> FALSE, entries |-> [i \in ObjIds |-> MISSING]]
EmptyRegistry == [active |-> TRUE, entries |-> [i \in ObjIds |-> MISSING]]

\* id() of the object an attribute of a real module is bound to: app.K and
\* pkg.b.K are one object (a re-export or a shared constant)
HasAttr(unit, attr) ==
    \/ unit \in {APP, PKGB} /\ attr \in {"K", "__file__"}
    \/ unit = PKGB /\ attr = "f"

IdOf(unit, attr) == IF attr = "K" THEN "o1" ELSE "o2"

_CLONABLE_IMPORT_ATTRS == {"__package__", "__path__", "__file__"}
_UNTRACKED_IMPORT_ATTRS ==
    _CLONABLE_IMPORT_ATTRS \cup
    {"__spec__", "__name__", "__dict__", "__loader__", "__class__",
     "__getattr__"}

\* _wrapped_tracking_getattr with the conflict test reduced to the identity
\* test (existing_record is not tracked_src): a second read from the same
\* origin builds a new tuple and counts as a conflict
WrappedTrackingGetattrIdentityOnly(reg, name, module_name) ==
    IF name \in _CLONABLE_IMPORT_ATTRS
    THEN reg
    ELSE LET obj_id == IdOf(module_name, name)
             tracked_src == Origin(module_name, name)
             existing_record == reg.entries[obj_id]
         IN  IF ~reg.active
             THEN reg
             ELSE IF existing_record = MISSING
             THEN [reg EXCEPT !.entries[obj_id] = tracked_src]
             ELSE IF existing_record # Tombstone
             THEN [reg EXCEPT !.entries[obj_id] = Tombstone]
             ELSE reg

\* _wrapped_tracking_getattr: the registry after module_name.name is read
\* through the delegating wrapper (the raise of AttributeError for the
\* clonable import attributes leaves it as it is)
WrappedTrackingGetattr(reg, name, module_name) ==
    IF name \in _CLONABLE_IMPORT_ATTRS
    THEN reg
    ELSE LET obj_id == IdOf(module_name, name)
             tracked_src == Origin(module_name, name)
             existing_record == reg.entries[obj_id]
         IN  IF ~reg.active
             THEN reg
             ELSE IF existing_record = MISSING
             THEN [reg EXCEPT !.entries[obj_id] = tracked_src]
             ELSE IF existing_record # Tombstone
                     /\ existing_record # tracked_src
             THEN [reg EXCEPT !.entries[obj_id] = Tombstone]
             ELSE reg

\* __getattribute__ with registry.get(obj_id) read without the MISSING
\* default: a tombstone (None) is taken for a key that is not there
FirstpartyTrackingGetattributeNoneIsMissing(reg, name, module_name) ==
    IF name \in _UNTRACKED_IMPORT_ATTRS
    THEN reg
    ELSE LET obj_id == IdOf(module_name, name)
             tracked_src == Origin(module_name, name)
             existing_record == reg.entries[obj_id]
         IN  IF ~reg.active
             THEN reg
             ELSE IF existing_record = MISSING \/ existing_record = Tombstone
             THEN [reg EXCEPT !.entries[obj_id] = tracked_src]
             ELSE IF existing_record # tracked_src
             THEN [reg EXCEPT !.entries[obj_id] = Tombstone]
             ELSE reg

\* _FirstpartyTrackingModule.__getattribute__: the registry after
\* module_name.name is read through the re-initializing wrapper
FirstpartyTrackingGetattribute(reg, name, module_name) ==
    IF name \in _UNTRACKED_IMPORT_ATTRS
    THEN reg
    ELSE LET obj_id == IdOf(module_name, name)
             tracked_src == Origin(module_name, name)
             existing_record == reg.entries[obj_id]
         IN  IF ~reg.active
             THEN reg
             ELSE IF existing_record = MISSING
             THEN [reg EXCEPT !.entries[obj_id] = tracked_src]
             ELSE IF existing_record # Tombstone
                     /\ existing_record # tracked_src
             THEN [reg EXCEPT !.entries[obj_id] = Tombstone]
             ELSE reg

\* _activatate_tracking_registry without the reentrancy check
ActivateTrackingRegistryUnchecked(active, new) ==
    [raised |-> FALSE, registry |-> new]

\* _activatate_tracking_registry with the check made after the set
ActivateTrackingRegistrySetFirst(active, new) ==
    [raised |-> active.active, registry |-> new]

\* _activatate_tracking_registry, on entry: raises when a registry is active,
\* else the given registry becomes the active one
ActivateTrackingRegistry(active, new) ==
    IF active.active
    THEN [raised |-> TRUE, registry |-> active]
    ELSE [raised |-> FALSE, registry |-> new]

\* ------------------------------------------------------------ sys.meta_path
IsExtractionLoader(finder) == finder.loader

HasExtractionLoader(chain) ==
    \E i \in 1..Len(chain) : IsExtractionLoader(chain[i])

\* install without the check for a loader that is already in the chain
InstallOpUnchecked(chain, loader) ==
    [raised |-> FALSE, chain |-> <<loader>> \o chain]

\* _ExtractionFinderLoader.install
InstallOp(chain, loader) ==
    IF HasExtractionLoader(chain)
    THEN [raised |-> TRUE, chain |-> chain]
    ELSE [raised |-> FALSE, chain |-> <<loader>> \o chain]

\* ------------------------------------------------------------- sys.modules
\* _get_all_dirty_modules without the test on the package name
GetAllDirtyModulesNoBypass(c, mods, known_clean_modules) ==
    (LoadedNames(mods) \ known_clean_modules) \ c.unpurgeable

\* _ExtractionFinderLoader._get_all_dirty_modules
GetAllDirtyModules(c, mods, known_clean_modules) ==
    ({module_name \in LoadedNames(mods) :
        /\ PackageName(module_name) \notin NOHOOK_PACKAGES
        /\ PackageName(module_name) \notin StdlibModuleNames}
     \ known_clean_modules) \ c.unpurgeable

\* cleanup_sys that leaves stub modules in sys.modules
CleanupSysKeepsStubs(c, mods, modules_to_remove) ==
    [n \in Names |->
        IF n \in modules_to_remove /\ mods[n] \notin {"absent", "stub"}
        THEN IF n \in c.unpurgeable THEN mods[n] ELSE "absent"
        ELSE mods[n]]

\* cleanup_sys that removes nothing
CleanupSysRemovesNothing(c, mods, modules_to_remove) == mods

\* _ExtractionFinderLoader.cleanup_sys; importlib.reload re-executes the
\* module object in place, so the name stays bound to the same object
CleanupSys(c, mods, modules_to_remove) ==
    [n \in Names |->
        IF n \in modules_to_remove /\ mods[n] # "absent"
        THEN IF n \in c.unpurgeable THEN mods[n] ELSE "absent"
        ELSE mods[n]]

\* cleanup_sys that never calls reload_module
ReloadCallsNone(c, mods, modules_to_remove) == {}

\* cleanup_sys: the names reload_module is called on
ReloadCalls(c, mods, modules_to_remove) ==
    {n \in modules_to_remove : mods[n] # "absent" /\ n \in c.unpurgeable}

\* uninstall that pops the loaders of discover_and_extract calls only, and
\* leaves a loader the host has installed in the chain
UninstallOpRunLoadersOnly(c, chain, mods) ==
    LET target_indices ==
            {i \in 1..Len(chain) :
                IsExtractionLoader(chain[i]) /\ chain[i].id # 0}
        modules_to_remove ==
            UNION {GetAllDirtyModules(c, mods, chain[i].known_clean) :
                   i \in target_indices}
    IN  [chain |-> SelectSeq(chain,
                      LAMBDA f : ~(IsExtractionLoader(f) /\ f.id # 0)),
         mods |-> CleanupSys(c, mods, modules_to_remove)]

\* uninstall that cleans up the modules loaded since an empty snapshot
\* whether or not it has found a loader in the chain
UninstallOpAlwaysCleans(c, chain, mods) ==
    [chain |-> SelectSeq(chain, LAMBDA f : ~IsExtractionLoader(f)),
     mods |-> CleanupSys(c, mods, GetAllDirtyModules(c, mods, {}))]

\* _ExtractionFinderLoader.uninstall: every extraction loader is popped from
\* the chain and the dirty modules of each of them are cleaned up
UninstallOp(c, chain, mods) ==
    LET target_indices ==
            {i \in 1..Len(chain) : IsExtractionLoader(chain[i])}
        modules_to_remove ==
            UNION {GetAllDirtyModules(c, mods, chain[i].known_clean) :
                   i \in target_indices}
    IN  [chain |-> SelectSeq(chain, LAMBDA f : ~IsExtractionLoader(f)),
         mods |-> CleanupSys(c, mods, modules_to_remove)]

\* --------------------------------------------------------------- find_spec
\* submodule_search_locations of a spec is "None" or "[]" (the import system
\* takes the module for a package that can have submodules)
NoSpec == [outcome |-> "None", strategy |-> "none", delegated |-> FALSE,
           is_firstparty |-> FALSE, delegated_module |-> "absent",
           submodule_search_locations |-> "None"]

\* the modules of the host that are packages: the __spec__ of the real
\* module has submodule_search_locations
IsPackage(fullname) == fullname = APP

\* _clone_spec_attrs: the existence of submodule_search_locations follows
\* the spec of the raw module
CloneSpecAttrs(fullname) == IF IsPackage(fullname) THEN "[]" ELSE "None"

\* _get_delegated_spec with is_firstparty set on every delegated loader
\* state
GetDelegatedSpecFirstpartyFlagSet(c, raw, module_to_inspect, base_package, fullname) ==
    LET stub_strategy ==
            IF fullname = module_to_inspect
            THEN INSPECT
            ELSE IF UseStubStrategy(c, fullname) = "True"
            THEN STUB
            ELSE TRACK
    IN  IF raw[fullname] = "absent"
        THEN [outcome |-> "KeyError", strategy |-> stub_strategy,
              delegated |-> TRUE, is_firstparty |-> TRUE,
              delegated_module |-> "absent",
              submodule_search_locations |-> "None"]
        ELSE [outcome |-> "spec", strategy |-> stub_strategy,
              delegated |-> TRUE, is_firstparty |-> TRUE,
              delegated_module |-> raw[fullname],
              submodule_search_locations |-> CloneSpecAttrs(fullname)]

\* _get_delegated_spec with module_stash_raw.get(fullname) for the STUB
\* strategy: a stub spec without a raw module
GetDelegatedSpecStubFallback(c, raw, module_to_inspect, base_package, fullname) ==
    LET stub_strategy ==
            IF fullname = module_to_inspect
            THEN INSPECT
            ELSE IF UseStubStrategy(c, fullname) = "True"
            THEN STUB
            ELSE TRACK
    IN  IF raw[fullname] = "absent" /\ stub_strategy # STUB
        THEN [outcome |-> "KeyError", strategy |-> stub_strategy,
              delegated |-> TRUE,
              is_firstparty |-> base_package \in c.firstparty_packages,
              delegated_module |-> "absent",
              submodule_search_locations |-> "None"]
        ELSE [outcome |-> "spec", strategy |-> stub_strategy,
              delegated |-> TRUE,
              is_firstparty |-> base_package \in c.firstparty_packages,
              delegated_module |-> raw[fullname],
              submodule_search_locations |-> CloneSpecAttrs(fullname)]

\* _ExtractionFinderLoader._get_delegated_spec; module_stash_raw[fullname]
\* raises KeyError for a name that was not stashed
GetDelegatedSpec(c, raw, module_to_inspect, base_package, fullname) ==
    LET stub_strategy ==
            IF fullname = module_to_inspect
            THEN INSPECT
            ELSE IF UseStubStrategy(c, fullname) = "True"
            THEN STUB
            ELSE TRACK
    IN  IF raw[fullname] = "absent"
        THEN [outcome |-> "KeyError", strategy |-> stub_strategy,
              delegated |-> TRUE,
              is_firstparty |-> base_package \in c.firstparty_packages,
              delegated_module |-> "absent",
              submodule_search_locations |-> "None"]
        ELSE [outcome |-> "spec", strategy |-> stub_strategy,
              delegated |-> TRUE,
              is_firstparty |-> base_package \in c.firstparty_packages,
              delegated_module |-> raw[fullname],
              submodule_search_locations |-> CloneSpecAttrs(fullname)]

\* find_spec with the phase looked at before the third-party stub branch
FindSpecPhaseFirst(c, module_stash_raw, ph, module_to_inspect, fullname) ==
    LET stub_strategy == UseStubStrategy(c, fullname)
        base_package == Head(fullname)
    IN  IF stub_strategy = "None"
        THEN NoSpec
        ELSE IF ph = PhaseUnset
        THEN [NoSpec EXCEPT !.outcome = "LookupError"]
        ELSE IF ph = EXPLORATION
        THEN NoSpec
        ELSE IF base_package \notin c.firstparty_packages
                /\ stub_strategy = "True"
        THEN [outcome |-> "spec", strategy |-> STUB, delegated |-> FALSE,
              is_firstparty |-> FALSE, delegated_module |-> "absent",
              submodule_search_locations |-> "[]"]
        ELSE IF ph = EXTRACTION \/ ph = PREPARATION
        THEN GetDelegatedSpec(c, module_stash_raw, module_to_inspect,
                              base_package, fullname)
        ELSE NoSpec

\* find_spec with the EXPLORATION phase answered by a delegated spec too
FindSpecExplorationDelegates(c, module_stash_raw, ph, module_to_inspect, fullname) ==
    LET stub_strategy == UseStubStrategy(c, fullname)
        base_package == Head(fullname)
    IN  IF stub_strategy = "None"
        THEN NoSpec
        ELSE IF base_package \notin c.firstparty_packages
                /\ stub_strategy = "True"
        THEN [outcome |-> "spec", strategy |-> STUB, delegated |-> FALSE,
              is_firstparty |-> FALSE, delegated_module |-> "absent",
              submodule_search_locations |-> "[]"]
        ELSE IF ph = PhaseUnset
        THEN [NoSpec EXCEPT !.outcome = "LookupError"]
        ELSE IF ph = EXTRACTION \/ ph = PREPARATION \/ ph = EXPLORATION
        THEN GetDelegatedSpec(c, module_stash_raw, module_to_inspect,
                              base_package, fullname)
        ELSE NoSpec

\* _ExtractionFinderLoader.find_spec; _EXTRACTION_PHASE.get() raises
\* LookupError when the context variable is unset
FindSpec(c, module_stash_raw, ph, module_to_inspect, fullname) ==
    LET stub_strategy == UseStubStrategy(c, fullname)
        base_package == Head(fullname)
    IN  IF stub_strategy = "None"
        THEN NoSpec
        ELSE IF base_package \notin c.firstparty_packages
                /\ stub_strategy = "True"
        THEN [outcome |-> "spec", strategy |-> STUB, delegated |-> FALSE,
              is_firstparty |-> FALSE, delegated_module |-> "absent",
              submodule_search_locations |-> "[]"]
        ELSE IF ph = PhaseUnset
        THEN [NoSpec EXCEPT !.outcome = "LookupError"]
        ELSE IF ph = EXPLORATION
        THEN NoSpec
        ELSE IF ph = EXTRACTION \/ ph = PREPARATION
        THEN GetDelegatedSpec(c, module_stash_raw, module_to_inspect,
                              base_package, fullname)
        ELSE NoSpec

\* create_module and exec_module: the kind of module object that is built
\* and initialized for a spec of this loader
ExecModule(spec) ==
    IF spec.strategy = STUB
    THEN "stub"
    ELSE IF spec.strategy = TRACK
    THEN IF spec.is_firstparty THEN "track_firstparty" ELSE "track_wrapped"
    ELSE "inspect"

\* exec_module with the strategy tag written in the STUB branch only
ExecModuleTagStubOnly(spec) ==
    IF spec.strategy = STUB THEN STUB ELSE "untagged"

\* exec_module, the strategy tag: setattr(module,
\* MODULE_ATTRNAME_STUBSTRATEGY, loader_state.stub_strategy) is reached on
\* the STUB branch and on the TRACK and INSPECT branches of a delegated
\* loader state; the other branches log an error and return before it
ExecModuleTag(spec) ==
    IF spec.strategy = STUB
    THEN STUB
    ELSE IF spec.delegated
    THEN IF spec.strategy = TRACK THEN TRACK
         ELSE IF spec.strategy = INSPECT THEN INSPECT
         ELSE "untagged"
    ELSE "untagged"

\* exec_module, INSPECT branch: tracking_registry = registry or {}. An
\* active registry that is still empty is falsy, so a new dict is attached
\* ("fresh") and not the active one ("registry")
AttachedRegistry(reg) ==
    IF reg.active /\ reg.entries # EmptyRegistry.entries
    THEN "registry"
    ELSE "fresh"

\* _stubbed_getattr: every attribute of a stub is a reftype placeholder
StubbedGetattr(name) == "placeholder"

\* importlib.import_module of a name that is not in sys.modules, with the
\* loader first in sys.meta_path: the loader's spec if it returns one, else
\* the host's finders
ImportModule(c, module_stash_raw, ph, module_to_inspect, fullname) ==
    LET spec == FindSpec(c, module_stash_raw, ph, module_to_inspect,
                         fullname)
    IN  IF spec.outcome = "spec"
        THEN [raised |-> "none", kind |-> ExecModule(spec), spec |-> spec]
        ELSE IF spec.outcome = "None"
        THEN IF fullname \in Installed
             THEN [raised |-> "none", kind |-> "real", spec |-> spec]
             ELSE [raised |-> "ModuleNotFoundError", kind |-> "absent",
                   spec |-> spec]
        ELSE [raised |-> spec.outcome, kind |-> "absent", spec |-> spec]

\* create_module returns None for a spec with the STUB strategy, so the
\* import system makes a new module object for it, whatever was made for
\* the name before: built holds the names a stub module has been made for
CreateModule(built, spec, fullname) ==
    IF spec.outcome = "spec" /\ spec.strategy = STUB
    THEN built \cup {fullname}
    ELSE built

NoStubs == {}

\* no re-exec of a tracking wrapper
NoReexec ==
    [ran |-> FALSE, existing_typecheck_flag |-> FALSE, flag_exec |-> FALSE,
     flag_after |-> FALSE]

\* _reexec_tracking_wrapper without the finally that restores the flag
ReexecTrackingWrapperNoRestore(existing_typecheck_flag) ==
    [ran |-> TRUE, existing_typecheck_flag |-> existing_typecheck_flag,
     flag_exec |-> FALSE, flag_after |-> FALSE]

\* _reexec_tracking_wrapper: typing.TYPE_CHECKING on entry, while the source
\* of the wrapped module runs, and when the function is left (finally), by
\* return or by exception
ReexecTrackingWrapper(existing_typecheck_flag) ==
    [ran |-> TRUE, existing_typecheck_flag |-> existing_typecheck_flag,
     flag_exec |-> FALSE, flag_after |-> existing_typecheck_flag]

\* exec_module calls _reexec_tracking_wrapper for a first-party TRACK spec
Reexec(spec, flag) ==
    IF spec.outcome = "spec" /\ spec.strategy = TRACK /\ spec.is_firstparty
    THEN ReexecTrackingWrapper(flag)
    ELSE NoReexec

\* ------------------------------------------- namespace of the inspected module
\* module-level names, and what each is bound to: nothing, the object the
\* first pass made, or the object the second pass made
Keys == {"K", "E", "T"}

NoNamespace == [k \in Keys |-> "unbound"]

\* the names the source of a first-party module binds: K always, E in the
\* else branch of `if typing.TYPE_CHECKING:`, T inside such a block
FirstPassNames(m) == IF m = APP THEN {"K"} ELSE {"K", "E"}

SecondPassNames(m) == IF m = PKGB THEN {"K"} ELSE {"K", "T"}

\* _reexec_inspectee_module: exec(module_source, dest_namespace)
ReexecInspecteeModule(m, dest_namespace) ==
    [k \in Keys |->
        IF k \in FirstPassNames(m) THEN "pass1" ELSE dest_namespace[k]]

\* the second pass with dest_namespace.update(expanded_namespace)
RecoverTypecheckBlocksOverwrite(m, dest_namespace) ==
    [k \in Keys |->
        IF k \in SecondPassNames(m) THEN "pass2" ELSE dest_namespace[k]]

\* _recover_typecheck_blocks_via_second_inspectee_reexec: the source runs in
\* a copy of the namespace, and the keys that are not in dest_namespace are
\* copied back
RecoverTypecheckBlocks(m, dest_namespace) ==
    LET expanded_namespace ==
            [k \in Keys |->
                IF k \in SecondPassNames(m) THEN "pass2"
                ELSE dest_namespace[k]]
    IN  [k \in Keys |->
            IF dest_namespace[k] = "unbound"
            THEN expanded_namespace[k]
            ELSE dest_namespace[k]]

\* what find_spec answered, as the import machinery sees it
Resolution(spec) ==
    IF spec.outcome = "spec" THEN spec.strategy
    ELSE IF spec.outcome = "None" THEN "bypass"
    ELSE spec.outcome

\* the first-party module names discover_all_modules returns
FirstpartyModules(c) ==
    {n \in Installed : PackageName(n) \in c.firstparty_packages}

\* ------------------------------------------------------------------- state
VARIABLES
    cfg,              \* the stubs config, firstparty packages and host setup
    sysModules,       \* sys.modules: name -> kind of the object bound to it
    metaPath,         \* sys.meta_path
    phase,            \* _EXTRACTION_PHASE
    moduleToInspect,  \* _MODULE_TO_INSPECT
    registry,         \* _ACTIVE_TRACKING_REGISTRY and the dict it refers to
    typeChecking,     \* typing.TYPE_CHECKING
    stashPrehook,     \* module_stash_prehook of the loader of the call
    stashRaw,         \* its module_stash_raw
    inspected,        \* its inspected_modules
    knownClean,       \* its known_clean_modules
    pc,               \* position of the discover_and_extract call in progress
    ctxToken,         \* ctx_token of discover_and_extract
    todo,             \* firstparty_names the extraction loop has not visited
    module_name,      \* loop variable of the extraction loop
    retval,           \* keys of the retval dict of discover_and_extract
    exc,              \* the exception the call is raising, "none" if none
    efStack,          \* frames of the extract_firstparty calls in progress
    runs,             \* number of discover_and_extract calls started
    firstSnapshot,    \* known_clean_modules as updated by the first run
    lastResolve,      \* the last find_spec call: name, phase, answer
    lastAccess,       \* the last tracked attribute read in this inspection
    apiResult,        \* outcome of the last call made from outside a run
    extracted,        \* the module of the inspection in progress or returned
    lastCleanup,      \* the last cleanup_sys call made from outside a run
    stubsBuilt,       \* names a stub module has been built for in the run
    failure           \* the unit initialization that has ended the run

vars == <<cfg, sysModules, metaPath, phase, moduleToInspect, registry,
          typeChecking, stashPrehook, stashRaw, inspected, knownClean, pc,
          ctxToken, todo, module_name, retval, exc, efStack, runs,
          firstSnapshot, lastResolve, lastAccess, apiResult, extracted,
          lastCleanup, stubsBuilt, failure>>

\* the loader discover_and_extract was called on
Self == Loader(runs, knownClean)

NoAccess == [valid |-> FALSE, unit |-> NoName, attr |-> "",
             variant |-> "none", prior |-> NoReg.entries]

NoResolve == [fullname |-> NoName, phase |-> PhaseUnset, answer |-> "none",
              inspecting |-> NoName, stashed |-> FALSE, spec |-> NoSpec,
              tag |-> "untagged", direct |-> FALSE,
              existing_typecheck_flag |-> FALSE]

\* no unit initialization has raised in this run; else the unit whose code
\* raised, where it ran ("pass1", "pass2" or "wrapper"), the unit names of the
\* 'Failed to re-exec' log records, the namespace of the inspected module and
\* typing.TYPE_CHECKING when the exception left extract_firstparty
NoFailure ==
    [unit |-> NoName, kind |-> "none", logged |-> {},
     namespace |-> NoNamespace, flag_after |-> FALSE]

\* no cleanup_sys call yet
NoCleanup == [names |-> {}, reloaded |-> {}, removed |-> {}]

\* the from-import the module under inspection has executed last: the module
\* and attribute it read, the kind of value it got, and the pass it ran in
NoImport == [unit |-> NoName, attr |-> "", value |-> "none", pass |-> "none"]

\* the module object extract_firstparty builds: the spec it was imported
\* with, its strategy tag, the tracking_registry of its
\* __docnote_extract_metadata__ ("none" before the first pass has ended) and,
\* once it is returned, the entries of that registry
NoExtract ==
    [name |-> NoName, spec |-> NoSpec, tag |-> "untagged",
     metadata |-> "none", tracking_registry |-> EmptyRegistry.entries,
     last_import |-> NoImport, returned |-> FALSE,
     namespace |-> NoNamespace]

\* sys.modules of the host before the first run: dataclasses (imported by
\* _extraction itself), pytest, and what the host has preloaded
InitModules(c) ==
    [n \in Names |->
        IF n \in {DC, PYTEST} \cup c.preloaded THEN "orig" ELSE "absent"]

Init ==
    /\ cfg \in Configs
    /\ sysModules = InitModules(cfg)
    /\ metaPath = <<PathFinder>>
    /\ phase = PhaseUnset
    /\ moduleToInspect = NoName
    /\ registry = NoReg
    /\ typeChecking = FALSE
    /\ stashPrehook = NoModules
    /\ stashRaw = NoModules
    /\ inspected = {}
    /\ knownClean = {}
    /\ pc = "idle"
    /\ ctxToken = PhaseUnset
    /\ todo = {}
    /\ module_name = NoName
    /\ retval = {}
    /\ exc = "none"
    /\ efStack = <<>>
    /\ runs = 0
    /\ firstSnapshot = {}
    /\ lastResolve = NoResolve
    /\ lastAccess = NoAccess
    /\ apiResult = "none"
    /\ extracted = NoExtract
    /\ lastCleanup = NoCleanup
    /\ stubsBuilt = NoStubs
    /\ failure = NoFailure

\* ------------------------------------------- discover_and_extract, try body
\* discover_and_extract is entered on a new loader, whose stashes and sets
\* are empty: ctx_token = _EXTRACTION_PHASE.set(HOOKED)
RunStart ==
    /\ pc = "idle"
    /\ runs < MaxRuns
    /\ stashPrehook' = NoModules
    /\ stashRaw' = NoModules
    /\ inspected' = {}
    /\ knownClean' = {}
    /\ lastResolve' = NoResolve
    /\ ctxToken' = phase
    /\ phase' = HOOKED
    /\ runs' = runs + 1
    /\ todo' = {}
    /\ module_name' = NoName
    /\ retval' = {}
    /\ exc' = "none"
    /\ apiResult' = "none"
    /\ pc' = "stash_prehook"
    /\ extracted' = NoExtract
    /\ lastCleanup' = NoCleanup
    /\ stubsBuilt' = NoStubs
    /\ failure' = NoFailure
    /\ UNCHANGED <<cfg, sysModules, metaPath, moduleToInspect, registry,
                   typeChecking, efStack, firstSnapshot, lastAccess>>

\* _stash_prehook_modules: every loaded module the stub policy does not
\* bypass is popped from sys.modules into module_stash_prehook
StashPrehookModules ==
    /\ pc = "stash_prehook"
    /\ stashPrehook' =
         [n \in Names |->
            IF sysModules[n] # "absent" /\ UseStubStrategy(cfg, n) # "None"
            THEN sysModules[n]
            ELSE stashPrehook[n]]
    /\ sysModules' =
         [n \in Names |->
            IF UseStubStrategy(cfg, n) # "None"
            THEN "absent"
            ELSE sysModules[n]]
    /\ pc' = "shim"
    /\ UNCHANGED <<cfg, metaPath, phase, moduleToInspect, registry,
                   typeChecking, stashRaw, inspected, knownClean, ctxToken, todo, module_name, retval, exc, efStack, runs,
                   firstSnapshot, lastResolve, lastAccess, apiResult,
                   extracted, lastCleanup,
                   stubsBuilt, failure>>

\* _shim_dataclasses: the dataclasses module _extraction imported is stashed
\* and sys.modules['dataclasses'] is bound to the patched clone
ShimDataclasses ==
    /\ pc = "shim"
    /\ stashPrehook' = [stashPrehook EXCEPT ![DC] = "orig"]
    /\ sysModules' = [sysModules EXCEPT ![DC] = "shim"]
    /\ pc' = "snapshot"
    /\ UNCHANGED <<cfg, metaPath, phase, moduleToInspect, registry,
                   typeChecking, stashRaw, inspected, knownClean, ctxToken, todo, module_name, retval, exc, efStack, runs,
                   firstSnapshot, lastResolve, lastAccess, apiResult,
                   extracted, lastCleanup,
                   stubsBuilt, failure>>

\* self.known_clean_modules.update(sys.modules)
Snapshot ==
    /\ pc = "snapshot"
    /\ knownClean' = knownClean \cup LoadedNames(sysModules)
    /\ firstSnapshot' =
         IF runs = 1 THEN LoadedNames(sysModules) ELSE firstSnapshot
    /\ pc' = "install"
    /\ UNCHANGED <<cfg, sysModules, metaPath, phase, moduleToInspect,
                   registry, typeChecking, stashPrehook, stashRaw, inspected,
                   ctxToken, todo, module_name, retval, exc, efStack,
                   runs, lastResolve, lastAccess, apiResult,
                   extracted, lastCleanup,
                   stubsBuilt, failure>>

\* self.install() inside discover_and_extract
Install ==
    /\ pc = "install"
    /\ LET r == InstallOp(metaPath, Self)
       IN  /\ metaPath' = r.chain
           /\ exc' = IF r.raised THEN "RuntimeError" ELSE exc
           /\ pc' = IF r.raised THEN "uninstall" ELSE "begin_exploration"
    /\ UNCHANGED <<cfg, sysModules, phase, moduleToInspect, registry,
                   typeChecking, stashPrehook, stashRaw, inspected,
                   knownClean, ctxToken, todo, module_name, retval,
                   efStack, runs, firstSnapshot, lastResolve, lastAccess,
                   apiResult,
                   extracted, lastCleanup,
                   stubsBuilt, failure>>

\* the exploration starts without the phase being set to EXPLORATION
BeginExplorationPhaseNotSet ==
    /\ pc = "begin_exploration"
    /\ pc' = "explore"
    /\ UNCHANGED <<cfg, sysModules, metaPath, phase, moduleToInspect,
                   registry, typeChecking, stashPrehook, stashRaw, inspected,
                   knownClean, ctxToken, todo, module_name, retval, exc,
                   efStack, runs, firstSnapshot, lastResolve, lastAccess,
                   apiResult,
                   extracted, lastCleanup,
                   stubsBuilt, failure>>

\* _EXTRACTION_PHASE.set(_ExtractionPhase.EXPLORATION)
BeginExploration ==
    /\ pc = "begin_exploration"
    /\ phase' = EXPLORATION
    /\ pc' = "explore"
    /\ UNCHANGED <<cfg, sysModules, metaPath, moduleToInspect, registry,
                   typeChecking, stashPrehook, stashRaw, inspected,
                   knownClean, ctxToken, todo, module_name, retval, exc,
                   efStack, runs, firstSnapshot, lastResolve, lastAccess,
                   apiResult,
                   extracted, lastCleanup,
                   stubsBuilt, failure>>

\* the record of a find_spec call, with the existing_typecheck_flag of the
\* _reexec_tracking_wrapper call that follows it, if one does
Resolved(fullname, spec) ==
    [fullname |-> fullname, phase |-> phase, answer |-> Resolution(spec),
     inspecting |-> moduleToInspect,
     stashed |-> stashRaw[fullname] # "absent", spec |-> spec,
     tag |-> IF spec.outcome = "spec" /\ spec.strategy # INSPECT
             THEN ExecModuleTag(spec)
             ELSE "untagged",
     direct |-> FALSE,
     existing_typecheck_flag |->
         Reexec(spec, typeChecking).existing_typecheck_flag]

\* discover_all_modules imports a module that is not loaded yet: a
\* first-party module, or a module one of them imports
ExploreImport(n) ==
    /\ pc = "explore"
    /\ sysModules[n] = "absent"
    /\ LET r == ImportModule(cfg, stashRaw, phase, moduleToInspect, n)
       IN  /\ lastResolve' = Resolved(n, r.spec)
           /\ stubsBuilt' = CreateModule(stubsBuilt, r.spec, n)
           /\ IF r.raised = "none"
              THEN /\ sysModules' = [sysModules EXCEPT ![n] = r.kind]
                   /\ UNCHANGED <<pc, exc>>
              ELSE /\ exc' = r.raised
                   /\ pc' = "uninstall"
                   /\ UNCHANGED sysModules
    /\ UNCHANGED <<cfg, metaPath, phase, moduleToInspect, registry,
                   typeChecking, stashPrehook, stashRaw, inspected,
                   knownClean, ctxToken, todo, module_name, retval,
                   efStack, runs, firstSnapshot, lastAccess, apiResult,
                   extracted, lastCleanup,
                   failure>>

\* the code of a module raises while discover_all_modules imports it
ExploreRaise ==
    /\ pc = "explore"
    /\ exc' = "Exception"
    /\ pc' = "uninstall"
    /\ UNCHANGED <<cfg, sysModules, metaPath, phase, moduleToInspect,
                   registry, typeChecking, stashPrehook, stashRaw, inspected,
                   knownClean, ctxToken, todo, module_name, retval,
                   efStack, runs, firstSnapshot, lastResolve, lastAccess,
                   apiResult,
                   extracted, lastCleanup,
                   stubsBuilt, failure>>

\* discover_all_modules returns once every first-party module is imported;
\* firstparty_names = frozenset(firstparty_modules)
DiscoverAllModules ==
    /\ pc = "explore"
    /\ FirstpartyModules(cfg) \subseteq LoadedNames(sysModules)
    /\ todo' = FirstpartyModules(cfg)
    /\ pc' = "stash_raw"
    /\ UNCHANGED <<cfg, sysModules, metaPath, phase, moduleToInspect,
                   registry, typeChecking, stashPrehook, stashRaw, inspected,
                   knownClean, ctxToken, module_name, retval, exc,
                   efStack, runs, firstSnapshot, lastResolve, lastAccess,
                   apiResult,
                   extracted, lastCleanup,
                   stubsBuilt, failure>>

\* _stash_raw_modules
StashRawModules ==
    /\ pc = "stash_raw"
    /\ stashRaw' =
         [fullname \in Names |->
            IF sysModules[fullname] # "absent"
               /\ (\/ UseStubStrategy(cfg, fullname) # "None"
                   \/ PackageName(fullname) \in cfg.firstparty_packages)
            THEN sysModules[fullname]
            ELSE stashRaw[fullname]]
    /\ pc' = "begin_extraction"
    /\ UNCHANGED <<cfg, sysModules, metaPath, phase, moduleToInspect,
                   registry, typeChecking, stashPrehook, inspected,
                   knownClean, ctxToken, todo, module_name, retval, exc,
                   efStack, runs, firstSnapshot, lastResolve, lastAccess,
                   apiResult,
                   extracted, lastCleanup,
                   stubsBuilt, failure>>

\* _EXTRACTION_PHASE.set(_ExtractionPhase.EXTRACTION)
BeginExtraction ==
    /\ pc = "begin_extraction"
    /\ phase' = EXTRACTION
    /\ pc' = "loop"
    /\ UNCHANGED <<cfg, sysModules, metaPath, moduleToInspect, registry,
                   typeChecking, stashPrehook, stashRaw, inspected,
                   knownClean, ctxToken, todo, module_name, retval, exc,
                   efStack, runs, firstSnapshot, lastResolve, lastAccess,
                   apiResult,
                   extracted, lastCleanup,
                   stubsBuilt, failure>>

\* ------------------------------------------------------- extract_firstparty
\* a frame of extract_firstparty: the module it inspects, the tokens its two
\* context variables are reset with, and how far it got: "import" (inside
\* import_module, before the module's code runs), "pass1" (the module's code
\* runs in _reexec_inspectee_module), "pass2" (it runs again in
\* _recover_typecheck_blocks_via_second_inspectee_reexec)
Frame(m, marker_token, registry_token, stage) ==
    [name |-> m, inspect_ctx_token |-> marker_token,
     registry_token |-> registry_token, stage |-> stage]

\* the part of the state the exit paths of extract_firstparty write
Scoped ==
    [mods |-> sysModules, marker |-> moduleToInspect, reg |-> registry,
     tc |-> typeChecking, inspected |-> inspected]

\* the exit of a frame with _MODULE_TO_INSPECT.reset outside of the finally:
\* an exception leaves the marker set
ExitExtractFirstpartyNoFinally(frame, st, raised) ==
    [mods |-> IF raised /\ frame.stage = "pass1"
              THEN [st.mods EXCEPT ![frame.name] = "absent"]
              ELSE st.mods,
     marker |-> IF raised THEN st.marker ELSE frame.inspect_ctx_token,
     reg |-> frame.registry_token,
     tc |-> IF frame.stage = "pass2" THEN FALSE ELSE st.tc,
     inspected |-> st.inspected \cup {frame.name}]

\* the exit of one extract_firstparty frame, by return or by exception:
\*   - an exception in pass 1 leaves import_module, which removes the
\*     half-initialized module from sys.modules
\*   - pass 2 ends with typing.TYPE_CHECKING = False (finally)
\*   - finally: self.inspected_modules.add(module_name)
\*   - _ACTIVE_TRACKING_REGISTRY.reset(ctx_token)
\*   - finally: _MODULE_TO_INSPECT.reset(inspect_ctx_token)
ExitExtractFirstparty(frame, st, raised) ==
    [mods |-> IF raised /\ frame.stage = "pass1"
              THEN [st.mods EXCEPT ![frame.name] = "absent"]
              ELSE st.mods,
     marker |-> frame.inspect_ctx_token,
     reg |-> frame.registry_token,
     tc |-> IF frame.stage = "pass2" THEN FALSE ELSE st.tc,
     inspected |-> st.inspected \cup {frame.name}]

\* an exception raised by the code of the module under inspection leaves
\* every frame in progress, innermost first
RECURSIVE UnwindRaise(_, _)
UnwindRaise(stack, st) ==
    IF stack = <<>>
    THEN st
    ELSE UnwindRaise(SubSeq(stack, 1, Len(stack) - 1),
                     ExitExtractFirstparty(stack[Len(stack)], st, TRUE))

\* the start of the second pass: _make_fake_typeshed, then
\* typing.TYPE_CHECKING = True
SecondPassStart(st) ==
    [st EXCEPT !.mods[TYPESHED] = "typeshed", !.tc = TRUE]

\* extract_firstparty(m) up to the point where the code of m starts to run,
\* or up to the exception that ends the call before that
EnterExtractFirstparty(m) ==
    LET act == ActivateTrackingRegistry(registry, EmptyRegistry)
        begun == [Scoped EXCEPT !.marker = m, !.reg = act.registry]
        frame(stage) == Frame(m, moduleToInspect, registry, stage)
        r == ImportModule(cfg, stashRaw, phase, m, m)
    IN  IF act.raised
        THEN \* the marker was set before the with statement and is reset
             [st |-> [Scoped EXCEPT !.reg = act.registry], push |-> <<>>,
              raised |-> "RuntimeError",
              resolve |-> lastResolve]
        ELSE IF sysModules[m] = "inspect"
        THEN \* import_module returns the module sys.modules has
             [st |-> SecondPassStart(begun), push |-> <<frame("pass2")>>,
              raised |-> "none", resolve |-> lastResolve]
        ELSE IF sysModules[m] # "absent"
        THEN \* the cached module has no __docnote_extract_metadata__
             [st |-> ExitExtractFirstparty(frame("import"), begun, TRUE),
              push |-> <<>>, raised |-> "AttributeError",
              resolve |-> lastResolve]
        ELSE IF r.raised # "none"
        THEN [st |-> ExitExtractFirstparty(frame("import"), begun, TRUE),
              push |-> <<>>, raised |-> r.raised,
              resolve |-> [Resolved(m, r.spec) EXCEPT !.inspecting = m]]
        ELSE IF r.kind = "inspect"
        THEN [st |-> [begun EXCEPT !.mods[m] = "inspect"],
              push |-> <<frame("pass1")>>, raised |-> "none",
              resolve |-> [Resolved(m, r.spec) EXCEPT !.inspecting = m]]
        ELSE \* a module that was not built by the INSPECT branch
             [st |-> ExitExtractFirstparty(
                        frame("import"),
                        [begun EXCEPT !.mods[m] = r.kind], TRUE),
              push |-> <<>>, raised |-> "AttributeError",
              resolve |-> [Resolved(m, r.spec) EXCEPT !.inspecting = m]]

\* writes a Scoped record back to the state
SetScoped(st) ==
    /\ sysModules' = st.mods
    /\ moduleToInspect' = st.marker
    /\ registry' = st.reg
    /\ typeChecking' = st.tc
    /\ inspected' = st.inspected

\* for module_name in firstparty_names:
\*     self.cleanup_sys(self._get_all_dirty_modules())
LoopCleanup(m) ==
    /\ pc = "loop"
    /\ m \in todo
    /\ module_name' = m
    /\ todo' = todo \ {m}
    /\ sysModules' =
         CleanupSys(cfg, sysModules,
                    GetAllDirtyModules(cfg, sysModules, knownClean))
    /\ pc' = "call_extract"
    /\ extracted' = NoExtract
    /\ UNCHANGED <<cfg, metaPath, phase, moduleToInspect, registry,
                   typeChecking, stashPrehook, stashRaw, inspected,
                   knownClean, ctxToken, retval, exc, efStack, runs,
                   firstSnapshot, lastResolve, lastAccess, apiResult,
                   lastCleanup,
                   stubsBuilt, failure>>

\* retval[module_name] = self.extract_firstparty(module_name), entered from
\* the extraction loop
ExtractFirstparty ==
    /\ pc = "call_extract"
    /\ LET e == EnterExtractFirstparty(module_name)
       IN  /\ SetScoped(e.st)
           /\ efStack' = efStack \o e.push
           /\ lastResolve' = e.resolve
           /\ exc' = e.raised
           /\ pc' = IF e.raised = "none" THEN "inspect" ELSE "uninstall"
    /\ lastAccess' = NoAccess
    /\ extracted' =
         LET e == EnterExtractFirstparty(module_name)
         IN  IF e.push # <<>>
             THEN [NoExtract EXCEPT !.name = module_name,
                                    !.spec = e.resolve.spec]
             ELSE NoExtract
    /\ UNCHANGED <<cfg, metaPath, phase, stashPrehook, stashRaw, knownClean,
                   ctxToken, todo, module_name, retval, runs,
                   firstSnapshot, apiResult,
                   lastCleanup,
                   stubsBuilt, failure>>

\* extract_firstparty(m) called while an inspection is in progress (by the
\* code of the module under inspection); the exception it raises is handed
\* to that code
ExtractFirstpartyReentrant(m) ==
    /\ pc = "inspect"
    /\ Len(efStack) < MaxDepth
    /\ m \in FirstpartyModules(cfg)
    /\ LET e == EnterExtractFirstparty(m)
       IN  /\ SetScoped(e.st)
           /\ efStack' = efStack \o e.push
           /\ lastResolve' = e.resolve
           /\ apiResult' = e.raised
           /\ lastAccess' = IF e.raised = "RuntimeError"
                            THEN lastAccess ELSE NoAccess
    /\ extracted' =
         LET e == EnterExtractFirstparty(m)
         IN  IF e.push # <<>>
             THEN [NoExtract EXCEPT !.name = m, !.spec = e.resolve.spec]
             ELSE IF e.raised = "RuntimeError"
             THEN extracted
             ELSE NoExtract
    /\ UNCHANGED <<cfg, metaPath, phase, stashPrehook, stashRaw, knownClean,
                   pc, ctxToken, todo, module_name, retval, exc, runs,
                   firstSnapshot,
                   lastCleanup,
                   stubsBuilt, failure>>

TopFrame == efStack[Len(efStack)]

\* the first pass ends: exec_module attaches the metadata and the strategy
\* tag, import_module returns, and the second pass starts
FirstPassDone ==
    /\ pc = "inspect"
    /\ TopFrame.stage = "pass1"
    /\ SetScoped(SecondPassStart(Scoped))
    /\ efStack' = [efStack EXCEPT ![Len(efStack)].stage = "pass2"]
    /\ extracted' =
         [extracted EXCEPT !.tag = ExecModuleTag(extracted.spec),
                           !.metadata = AttachedRegistry(registry),
                           !.namespace =
                               ReexecInspecteeModule(TopFrame.name, @)]
    /\ UNCHANGED <<cfg, metaPath, phase, stashPrehook, stashRaw, knownClean,
                   pc, ctxToken, todo, module_name, retval, exc, runs,
                   firstSnapshot, lastResolve, lastAccess, apiResult,
                   lastCleanup,
                   stubsBuilt, failure>>

\* the second pass ends and extract_firstparty returns the module
SecondPassDone ==
    /\ pc = "inspect"
    /\ TopFrame.stage = "pass2"
    /\ SetScoped(ExitExtractFirstparty(TopFrame, Scoped, FALSE))
    /\ efStack' = SubSeq(efStack, 1, Len(efStack) - 1)
    /\ IF Len(efStack) = 1
       THEN /\ retval' = retval \cup {TopFrame.name}
            /\ pc' = "loop"
       ELSE UNCHANGED <<retval, pc>>
    /\ lastAccess' = NoAccess
    /\ extracted' =
         [extracted EXCEPT
            !.returned = TRUE,
            !.namespace = RecoverTypecheckBlocks(TopFrame.name, @),
            !.tracking_registry =
                IF extracted.metadata = "registry"
                THEN registry.entries
                ELSE EmptyRegistry.entries]
    /\ UNCHANGED <<cfg, metaPath, phase, stashPrehook, stashRaw, knownClean,
                   ctxToken, todo, module_name, exc, runs,
                   firstSnapshot, lastResolve, apiResult,
                   lastCleanup,
                   stubsBuilt, failure>>

\* the failure record without the log line
FailedUnlogged(unit, kind, logged, st) ==
    [unit |-> unit, kind |-> kind, logged |-> {},
     namespace |-> extracted.namespace, flag_after |-> st.tc]

\* except Exception: logger.exception('Failed to re-exec %s', module_name);
\* raise, in each function that runs the source of a module: logged holds
\* the names the log lines carry, st is the state the exception leaves
Failed(unit, kind, logged, st) ==
    [unit |-> unit, kind |-> kind, logged |-> logged,
     namespace |-> extracted.namespace, flag_after |-> st.tc]

\* the code of the module under inspection raises, in either pass: the
\* exception is logged, re-raised and leaves discover_and_extract's try
InspecteeRaise ==
    /\ pc = "inspect"
    /\ SetScoped(UnwindRaise(efStack, Scoped))
    /\ efStack' = <<>>
    /\ exc' = "Exception"
    /\ pc' = "uninstall"
    /\ lastAccess' = NoAccess
    /\ extracted' = NoExtract
    /\ failure' = Failed(TopFrame.name, TopFrame.stage, {TopFrame.name},
                         UnwindRaise(efStack, Scoped))
    /\ UNCHANGED <<cfg, metaPath, phase, stashPrehook, stashRaw, knownClean,
                   ctxToken, todo, module_name, retval, runs,
                   firstSnapshot, lastResolve, apiResult,
                   lastCleanup,
                   stubsBuilt>>

\* the code of the module under inspection imports a module that is not in
\* sys.modules; an exception of find_spec or of the host's finders is raised
\* into that code and ends the inspection
InspecteeImport(n) ==
    /\ pc = "inspect"
    /\ sysModules[n] = "absent"
    /\ LET r == ImportModule(cfg, stashRaw, phase, moduleToInspect, n)
       IN  /\ lastResolve' = Resolved(n, r.spec)
           /\ stubsBuilt' = CreateModule(stubsBuilt, r.spec, n)
           /\ IF r.raised = "none"
              THEN /\ sysModules' = [sysModules EXCEPT ![n] = r.kind]
                   /\ typeChecking' =
                         IF Reexec(r.spec, typeChecking).ran
                         THEN Reexec(r.spec, typeChecking).flag_after
                         ELSE typeChecking
                   /\ UNCHANGED <<moduleToInspect, registry, inspected,
                                  efStack, exc, pc, lastAccess, extracted,
                                  failure>>
              ELSE /\ SetScoped(UnwindRaise(efStack, Scoped))
                   /\ efStack' = <<>>
                   /\ exc' = r.raised
                   /\ pc' = "uninstall"
                   /\ lastAccess' = NoAccess
                   /\ extracted' = NoExtract
                   /\ failure' = Failed(TopFrame.name, TopFrame.stage,
                                        {TopFrame.name},
                                        UnwindRaise(efStack, Scoped))
    /\ UNCHANGED <<cfg, metaPath, phase, stashPrehook, stashRaw, knownClean,
                   ctxToken, todo, module_name, retval, runs,
                   firstSnapshot, apiResult, lastCleanup>>

\* the code of the module under inspection imports a first-party module
\* that is tracked, and the source of that module raises while
\* _reexec_tracking_wrapper runs it: the function logs, restores
\* typing.TYPE_CHECKING and re-raises into the importing code, whose own
\* re-exec function logs and re-raises in turn, which ends the inspection.
\* exec_module is left before it sets the strategy tag, and the import
\* system discards the module object
WrapperRaise(n) ==
    /\ pc = "inspect"
    /\ sysModules[n] = "absent"
    /\ LET r == ImportModule(cfg, stashRaw, phase, moduleToInspect, n)
           x == Reexec(r.spec, typeChecking)
           left == [Scoped EXCEPT !.tc = x.flag_after]
       IN  /\ r.raised = "none"
           /\ x.ran
           /\ lastResolve' = [Resolved(n, r.spec) EXCEPT !.tag = "discarded"]
           /\ SetScoped(UnwindRaise(efStack, left))
           /\ failure' = Failed(n, "wrapper", {n, TopFrame.name},
                                UnwindRaise(efStack, left))
    /\ efStack' = <<>>
    /\ exc' = "Exception"
    /\ pc' = "uninstall"
    /\ lastAccess' = NoAccess
    /\ extracted' = NoExtract
    /\ UNCHANGED <<cfg, metaPath, phase, stashPrehook, stashRaw, knownClean,
                   ctxToken, todo, module_name, retval, runs,
                   firstSnapshot, apiResult, lastCleanup, stubsBuilt>>

\* the code of the module under inspection reads attribute a of the
\* tracking wrapper bound to n
TrackedAccess(n, a) ==
    /\ pc = "inspect"
    /\ sysModules[n] \in {"track_wrapped", "track_firstparty"}
    /\ HasAttr(n, a)
    /\ registry' =
         IF sysModules[n] = "track_wrapped"
         THEN WrappedTrackingGetattr(registry, a, n)
         ELSE FirstpartyTrackingGetattribute(registry, a, n)
    /\ lastAccess' =
         IF a \in _UNTRACKED_IMPORT_ATTRS
         THEN lastAccess
         ELSE [valid |-> TRUE, unit |-> n, attr |-> a,
               variant |-> sysModules[n],
               prior |-> registry.entries]
    /\ extracted' =
         IF a \in _UNTRACKED_IMPORT_ATTRS
         THEN extracted
         ELSE [extracted EXCEPT
                 !.last_import = [unit |-> n, attr |-> a, value |-> "real",
                                  pass |-> TopFrame.stage]]
    /\ UNCHANGED <<cfg, sysModules, metaPath, phase, moduleToInspect,
                   typeChecking, stashPrehook, stashRaw, inspected,
                   knownClean, pc, ctxToken, todo, module_name, retval,
                   exc, efStack, runs, firstSnapshot, lastResolve,
                   apiResult,
                   lastCleanup,
                   stubsBuilt, failure>>

\* the code of the module under inspection reads attribute a of the stub
\* bound to n, an attribute the real module has (the stub serves any name
\* and relies on type checkers for that): the value is a placeholder and the
\* registry is not written
StubbedAccess(n, a) ==
    /\ pc = "inspect"
    /\ sysModules[n] = "stub"
    /\ HasAttr(n, a)
    /\ a \notin _UNTRACKED_IMPORT_ATTRS
    /\ extracted' =
         [extracted EXCEPT
            !.last_import = [unit |-> n, attr |-> a,
                             value |-> StubbedGetattr(a),
                             pass |-> TopFrame.stage]]
    /\ UNCHANGED <<cfg, sysModules, metaPath, phase, moduleToInspect,
                   registry, typeChecking, stashPrehook, stashRaw, inspected,
                   knownClean, pc, ctxToken, todo, module_name, retval,
                   exc, efStack, runs, firstSnapshot, lastResolve,
                   lastAccess, apiResult, lastCleanup,
                   stubsBuilt, failure>>

\* the extraction loop ends: return retval
LoopDone ==
    /\ pc = "loop"
    /\ todo = {}
    /\ pc' = "uninstall"
    /\ extracted' = NoExtract
    /\ UNCHANGED <<cfg, sysModules, metaPath, phase, moduleToInspect,
                   registry, typeChecking, stashPrehook, stashRaw, inspected,
                   knownClean, ctxToken, todo, module_name, retval, exc,
                   efStack, runs, firstSnapshot, lastResolve, lastAccess,
                   apiResult,
                   lastCleanup,
                   stubsBuilt, failure>>

\* ---------------------------------------- discover_and_extract, finally
\* finally: self.uninstall()
Uninstall ==
    /\ pc = "uninstall"
    /\ LET u == UninstallOp(cfg, metaPath, sysModules)
       IN  /\ metaPath' = u.chain
           /\ sysModules' = u.mods
    /\ pc' = "exit"
    /\ UNCHANGED <<cfg, phase, moduleToInspect, registry, typeChecking,
                   stashPrehook, stashRaw, inspected, knownClean, ctxToken, todo, module_name, retval, exc, efStack, runs,
                   firstSnapshot, lastResolve, lastAccess, apiResult,
                   extracted, lastCleanup,
                   stubsBuilt, failure>>

\* _unstash_prehook_modules with sys.modules.setdefault(name, module)
UnstashPrehookModulesSetdefault(mods, module_stash_prehook) ==
    [n \in Names |->
        IF module_stash_prehook[n] # "absent" /\ mods[n] = "absent"
        THEN module_stash_prehook[n]
        ELSE mods[n]]

\* _unstash_prehook_modules that restores nothing
UnstashPrehookModulesNothing(mods, module_stash_prehook) == mods

\* _unstash_prehook_modules
UnstashPrehookModules(mods, module_stash_prehook) ==
    [n \in Names |->
        IF module_stash_prehook[n] # "absent"
        THEN module_stash_prehook[n]
        ELSE mods[n]]

\* finally: _EXTRACTION_PHASE.reset(ctx_token);
\*          self._unstash_prehook_modules()
\* and discover_and_extract returns retval or raises exc; the loader, the
\* stub modules it built and the exception's log record are the run's own
RunExit ==
    /\ pc = "exit"
    /\ phase' = ctxToken
    /\ sysModules' = UnstashPrehookModules(sysModules, stashPrehook)
    /\ pc' = "idle"
    /\ stubsBuilt' = NoStubs
    /\ failure' = NoFailure
    /\ UNCHANGED <<cfg, metaPath, moduleToInspect, registry, typeChecking,
                   stashPrehook, stashRaw, inspected, knownClean, ctxToken, todo, module_name, retval, exc, efStack, runs,
                   firstSnapshot, lastResolve, lastAccess, apiResult,
                   extracted, lastCleanup>>

\* self.uninstall() is interrupted before it has removed anything; the
\* inner finally still runs
UninstallRaise ==
    /\ pc = "uninstall"
    /\ exc' = "Interrupted"
    /\ pc' = "exit"
    /\ UNCHANGED <<cfg, sysModules, metaPath, phase, moduleToInspect,
                   registry, typeChecking, stashPrehook, stashRaw, inspected,
                   knownClean, ctxToken, todo, module_name, retval,
                   efStack, runs, firstSnapshot, lastResolve, lastAccess,
                   apiResult,
                   extracted, lastCleanup,
                   stubsBuilt, failure>>

\* ------------------------------------------------- calls from outside a run
\* install() called by the host on a loader it has made, while no extraction
\* runs
DirectInstall ==
    /\ pc = "idle"
    /\ LET r == InstallOp(metaPath, HostLoader)
       IN  /\ metaPath' = r.chain
           /\ apiResult' = IF r.raised THEN "RuntimeError" ELSE "installed"
    /\ UNCHANGED <<cfg, sysModules, phase, moduleToInspect, registry,
                   typeChecking, stashPrehook, stashRaw, inspected,
                   knownClean, pc, ctxToken, todo, module_name, retval,
                   exc, efStack, runs, firstSnapshot, lastResolve,
                   lastAccess,
                   extracted, lastCleanup,
                   stubsBuilt, failure>>

\* uninstall() called by the host while no extraction runs; a call that
\* follows another uninstall() call of the host is recorded as such
DirectUninstall ==
    /\ pc = "idle"
    /\ LET u == UninstallOp(cfg, metaPath, sysModules)
       IN  /\ metaPath' = u.chain
           /\ sysModules' = u.mods
    /\ apiResult' = IF apiResult \in {"uninstall", "uninstall_again"}
                    THEN "uninstall_again"
                    ELSE "uninstall"
    /\ lastResolve' = NoResolve
    /\ lastCleanup' = NoCleanup
    /\ UNCHANGED <<cfg, phase, moduleToInspect, registry, typeChecking,
                   stashPrehook, stashRaw, inspected, knownClean, pc,
                   ctxToken, todo, module_name, retval, exc, efStack, runs,
                   firstSnapshot, lastAccess, extracted,
                   stubsBuilt, failure>>

\* the names a caller of find_spec asks for, one of each sort (standard
\* library, NOHOOK_PACKAGES, and the three the configurations tell apart),
\* and the markers it sets for the call
HostNames == {JSON, PYTEST, APP, PKGA, PKGB}
HostMarkers == {NoName, PKGA}

\* find_spec(fullname) called by the host on the loader of the last
\* discover_and_extract call (which keeps its module_stash_raw), in a context
\* in which the caller has set _EXTRACTION_PHASE to ph, or left it unset, and
\* _MODULE_TO_INSPECT to mi, or left it unset; no module is initialized.
\* lastResolve, apiResult and lastCleanup together record the last call
\* made from outside a run
HostFindSpec(fullname, ph, mi) ==
    /\ pc = "idle"
    /\ LET spec == FindSpec(cfg, stashRaw, ph, mi, fullname)
       IN  lastResolve' =
               [fullname |-> fullname, phase |-> ph,
                answer |-> Resolution(spec), inspecting |-> mi,
                stashed |-> stashRaw[fullname] # "absent", spec |-> spec,
                tag |-> "untagged", direct |-> TRUE,
                existing_typecheck_flag |-> FALSE]
    /\ apiResult' = "find_spec"
    /\ lastCleanup' = NoCleanup
    /\ UNCHANGED <<cfg, sysModules, metaPath, phase, moduleToInspect,
                   registry, typeChecking, stashPrehook, stashRaw, inspected,
                   knownClean, pc, ctxToken, todo, module_name, retval,
                   exc, efStack, runs, firstSnapshot, lastAccess,
                   extracted,
                   stubsBuilt, failure>>

\* importlib.reload of the module object bound to fullname: the finders of
\* sys.meta_path are asked for a spec, the extraction loader first if one is
\* installed, and the loader of the spec re-executes the module object in
\* place; without a spec reload raises ModuleNotFoundError
ReloadModule(c, chain, raw, ph, mi, fullname, kind) ==
    LET hooked == HasExtractionLoader(chain)
        spec == FindSpec(c, raw, ph, mi, fullname)
    IN  IF hooked /\ spec.outcome = "spec"
        THEN [raised |-> "none", kind |-> ExecModule(spec)]
        ELSE IF hooked /\ spec.outcome # "None"
        THEN [raised |-> spec.outcome, kind |-> kind]
        ELSE IF fullname \in Installed
        THEN [raised |-> "none",
              kind |-> IF kind = "orig" THEN "orig" ELSE "real"]
        ELSE [raised |-> "ModuleNotFoundError", kind |-> kind]

\* the names the host passes to cleanup_sys
CleanupArgs == {APP, PKGA, PKGB, JSON}

\* cleanup_sys(modules_to_remove) called by the host while no extraction
\* runs. A loader in sys.meta_path is then the host's, whose module_stash_raw
\* is empty. A reload that raises ends the loop over the set, whose order is
\* arbitrary, with any part of the other names done
DirectCleanupSys(modules_to_remove) ==
    /\ pc = "idle"
    /\ LET reloads == ReloadCalls(cfg, sysModules, modules_to_remove)
           r(n) == ReloadModule(cfg, metaPath, NoModules, phase,
                                moduleToInspect, n, sysModules[n])
           failing == {n \in reloads : r(n).raised # "none"}
           Removed(done) ==
               {n \in done : sysModules[n] # "absent"} \ reloads
           Apply(done) ==
               [n \in Names |->
                   IF n \in done \cap reloads
                   THEN r(n).kind
                   ELSE CleanupSys(cfg, sysModules, done)[n]]
       IN  IF failing = {}
           THEN /\ sysModules' = Apply(modules_to_remove)
                /\ apiResult' = "cleanup_sys"
                /\ lastCleanup' = [names |-> modules_to_remove,
                                   reloaded |-> reloads,
                                   removed |-> Removed(modules_to_remove)]
           ELSE \E f \in failing :
                \E done \in SUBSET (modules_to_remove \ failing) :
                    /\ sysModules' = Apply(done)
                    /\ apiResult' = r(f).raised
                    /\ lastCleanup' =
                          [names |-> modules_to_remove,
                           reloaded |-> (done \cap reloads) \cup {f},
                           removed |-> Removed(done)]
    /\ lastResolve' = NoResolve
    /\ UNCHANGED <<cfg, metaPath, phase, moduleToInspect, registry,
                   typeChecking, stashPrehook, stashRaw, inspected,
                   knownClean, pc, ctxToken, todo, module_name, retval,
                   exc, efStack, runs, firstSnapshot, lastAccess,
                   extracted,
                   stubsBuilt, failure>>

\* ----------------------------------------------------------- specification
Next ==
    \/ RunStart
    \/ StashPrehookModules
    \/ ShimDataclasses
    \/ Snapshot
    \/ Install
    \/ BeginExploration
    \/ \E n \in Names : ExploreImport(n)
    \/ ExploreRaise
    \/ DiscoverAllModules
    \/ StashRawModules
    \/ BeginExtraction
    \/ \E m \in Names : LoopCleanup(m)
    \/ ExtractFirstparty
    \/ \E m \in Names : ExtractFirstpartyReentrant(m)
    \/ FirstPassDone
    \/ SecondPassDone
    \/ InspecteeRaise
    \/ \E n \in Names : InspecteeImport(n)
    \/ \E n \in Names : WrapperRaise(n)
    \/ \E n \in Names, a \in Attrs : TrackedAccess(n, a)
    \/ \E n \in Names, a \in Attrs : StubbedAccess(n, a)
    \/ LoopDone
    \/ Uninstall
    \/ RunExit
    \/ DirectInstall

Spec == Init /\ [][Next]_vars

\* the same, with an interrupt of uninstall as a possible step
NextFault == Next \/ UninstallRaise

SpecFault == Init /\ [][NextFault]_vars

\* the same as Spec, with find_spec called by the host
NextResolve ==
    \/ Next
    \/ \E fullname \in HostNames, mi \in HostMarkers :
          \E ph \in {PhaseUnset, HOOKED, EXPLORATION, PREPARATION,
                      EXTRACTION} :
              HostFindSpec(fullname, ph, mi)

SpecResolve == Init /\ [][NextResolve]_vars

\* the same as Spec, with uninstall and cleanup_sys called by the host
NextHost ==
    \/ Next
    \/ DirectUninstall
    \/ \E modules_to_remove \in SUBSET CleanupArgs :
          DirectCleanupSys(modules_to_remove)

SpecHost == Init /\ [][NextHost]_vars

\* ------------------------------------------------ the stub policy by itself
\* StubsConfig.from_gather_kwargs: enabled_stubs is True, False or a
\* collection of names ([flag |-> "names", names |-> s])
FromGatherKwargs(enabled_stubs, nostub_firstparty_modules, nostub_packages) ==
    [firstparty_packages |-> {"pkg"},
     enable_stubs |-> enabled_stubs.flag # "False",
     global_allowlist |-> IF enabled_stubs.flag = "names"
                          THEN Allowlist(enabled_stubs.names)
                          ELSE NoAllowlist,
     firstparty_blocklist |-> nostub_firstparty_modules,
     thirdparty_blocklist |-> nostub_packages,
     unpurgeable |-> {}, preloaded |-> {}]

\* the names and packages the policy's configurations are made of
PolicyNames == {JSON, PYTEST, PKGA, PKGB}
PolicyPackages == {"pkg", "app"}
EnabledStubsArgs ==
    {[flag |-> "True", names |-> {}], [flag |-> "False", names |-> {}]}
        \cup {[flag |-> "names", names |-> s] : s \in SUBSET PolicyNames}

\* the StubsConfig objects the policy is asked under: those of
\* from_gather_kwargs, and those of the dataclass constructor, which takes
\* every combination of the four fields
PolicyConfigs ==
    {FromGatherKwargs(e, f, p) :
        e \in EnabledStubsArgs, f \in SUBSET {PKGA, PKGB},
        p \in SUBSET PolicyPackages}
    \cup
    {[FromGatherKwargs([flag |-> "names", names |-> s], f, p)
        EXCEPT !.enable_stubs = FALSE] :
        s \in SUBSET PolicyNames, f \in SUBSET {PKGA, PKGB},
        p \in SUBSET PolicyPackages}

InitPolicy ==
    /\ cfg \in PolicyConfigs
    /\ sysModules = NoModules
    /\ metaPath = <<PathFinder>>
    /\ phase = PhaseUnset
    /\ moduleToInspect = NoName
    /\ registry = NoReg
    /\ typeChecking = FALSE
    /\ stashPrehook = NoModules
    /\ stashRaw = NoModules
    /\ inspected = {}
    /\ knownClean = {}
    /\ pc = "idle"
    /\ ctxToken = PhaseUnset
    /\ todo = {}
    /\ module_name = NoName
    /\ retval = {}
    /\ exc = "none"
    /\ efStack = <<>>
    /\ runs = 0
    /\ firstSnapshot = {}
    /\ lastResolve = NoResolve
    /\ lastAccess = NoAccess
    /\ apiResult = "none"
    /\ extracted = NoExtract
    /\ lastCleanup = NoCleanup
    /\ stubsBuilt = NoStubs
    /\ failure = NoFailure

\* stubs_config.use_stub_strategy(module_fullname), called on the
\* configuration by itself; lastResolve records the name and the answer
PolicyQuery(module_fullname) ==
    /\ lastResolve' =
          [NoResolve EXCEPT !.fullname = module_fullname,
                            !.answer = UseStubStrategy(cfg, module_fullname)]
    /\ apiResult' = "use_stub_strategy"
    /\ UNCHANGED <<cfg, sysModules, metaPath, phase, moduleToInspect,
                   registry, typeChecking, stashPrehook, stashRaw, inspected,
                   knownClean, pc, ctxToken, todo, module_name, retval,
                   exc, efStack, runs, firstSnapshot, lastAccess,
                   extracted, lastCleanup, stubsBuilt, failure>>

NextPolicy == \E module_fullname \in Names : PolicyQuery(module_fullname)

SpecPolicy == InitPolicy /\ [][NextPolicy]_vars

TypeOK ==
    /\ cfg \in Configs
    /\ sysModules \in [Names -> Kinds]
    /\ phase \in {PhaseUnset, HOOKED, EXPLORATION, PREPARATION, EXTRACTION}
    /\ moduleToInspect \in Names \cup {NoName}
    /\ typeChecking \in BOOLEAN
    /\ runs \in 0..MaxRuns
    /\ Len(efStack) <= MaxDepth
    /\ stubsBuilt \subseteq Names
    /\ failure.kind \in {"none", "pass1", "pass2", "wrapper"}
    /\ failure.unit \in Names \cup {NoName}
    /\ failure.logged \subseteq Names
    /\ extracted.namespace \in [Keys -> {"unbound", "pass1", "pass2"}]

\* ------------------------------------------------------------------ claims
\* the modules the host had loaded before the first run
PreRunLoaded == LoadedNames(InitModules(cfg))

\* names the hook never touches: standard library and NOHOOK_PACKAGES
Bypassed(n) == UseStubStrategy(cfg, n) = "None"

\* a discover_and_extract call has ended and none is in progress
AfterRun == pc = "idle" /\ runs > 0

\* C1 as stated: after the cleanup of the last run the loaded names are
\* exactly the Known-Clean Snapshot (known_clean_modules) of the first run
C1_LoadedEqualsSnapshot ==
    AfterRun => LoadedNames(sysModules) = firstSnapshot

\* C1, amended: after the cleanup of the last run every module that was
\* loaded before the first run is loaded again (the snapshot and the restored
\* pre-run stash), and every other loaded name is a bypassed or an
\* unpurgeable module that a run has loaded
C1_EnvironmentRestored ==
    AfterRun =>
        /\ PreRunLoaded \subseteq LoadedNames(sysModules)
        /\ firstSnapshot \subseteq LoadedNames(sysModules)
        /\ \A n \in LoadedNames(sysModules) \ PreRunLoaded :
              Bypassed(n) \/ n \in cfg.unpurgeable

\* two runs have ended, the last one by an exception raised after a module
\* had been inspected, and a standard-library module was loaded on the way
C1_Witness ==
    /\ AfterRun
    /\ runs >= 2
    /\ exc = "Exception"
    /\ retval # {}
    /\ sysModules[JSON] = "real"
    /\ PreRunLoaded # firstSnapshot

\* C2: the step that runs uninstall, after normal completion or after an
\* exception in any phase, leaves no name of the loader's dirty set, as
\* computed when uninstall starts, in sys.modules
C2_CleanupReachability ==
    [][(pc = "uninstall" /\ pc' = "exit") =>
          \A n \in GetAllDirtyModules(cfg, sysModules, knownClean) :
              sysModules'[n] = "absent"]_vars

\* uninstall has run after an exception in the second pass of an inspection:
\* the inspected module, its tracking wrappers and the fake _typeshed were
\* dirty and are gone
C2_Witness ==
    /\ pc = "exit"
    /\ exc = "Exception"
    /\ lastResolve.answer = TRACK
    /\ stashRaw[TYPESHED] = "absent"
    /\ inspected # {}
    /\ \A n \in inspected \cup {TYPESHED, lastResolve.fullname} :
          sysModules[n] = "absent"

\* the same inspection goes on from this state to the next
SameInspection ==
    /\ efStack # <<>>
    /\ Len(efStack') = Len(efStack)
    /\ efStack'[Len(efStack')].name = TopFrame.name
    /\ registry.active
    /\ registry'.active

\* C3: within an inspection, an entry of the active registry that is the
\* tombstone stays the tombstone, whatever is read through either wrapper
C3_ProvenanceMonotonic ==
    [][SameInspection =>
          \A i \in ObjIds :
              registry.entries[i] = Tombstone =>
                  registry'.entries[i] = Tombstone]_vars

\* an object whose entry already was the tombstone has been read again,
\* through the re-initializing wrapper, and its entry is the tombstone
C3_Witness ==
    /\ lastAccess.valid
    /\ lastAccess.variant = "track_firstparty"
    /\ lastAccess.prior[IdOf(lastAccess.unit, lastAccess.attr)] = Tombstone
    /\ registry.entries[IdOf(lastAccess.unit, lastAccess.attr)] = Tombstone

\* C4: at most one extract_firstparty call is past the activation of its
\* registry, the marker names the module of that call and is unset when
\* there is none, so at most one name resolves to INSPECT; a second
\* extract_firstparty during an inspection does not start one
C4_SingleActiveInspection ==
    /\ Len(efStack) <= 1
    /\ efStack = <<>> => moduleToInspect = NoName
    /\ efStack # <<>> => moduleToInspect = TopFrame.name
    /\ Cardinality(
         {n \in Names :
            FindSpec(cfg, stashRaw, phase, moduleToInspect, n).strategy
                = INSPECT}) <= 1

\* extract_firstparty was called during the second pass of an inspection and
\* raised; the inspection goes on
C4_Witness ==
    /\ pc = "inspect"
    /\ apiResult = "RuntimeError"
    /\ Len(efStack) = 1
    /\ TopFrame.stage = "pass2"
    /\ moduleToInspect = TopFrame.name

\* the phase changes inside a discover_and_extract call
PhaseStep == pc # "idle" /\ pc' # "idle" /\ phase' # phase

\* C5 as stated: inside a run the phase moves one step forward in the order
\* HOOKED, EXPLORATION, PREPARATION, EXTRACTION, skipping none
C5_NoPhaseSkipped ==
    [][PhaseStep =>
          <<phase, phase'>> \in {<<HOOKED, EXPLORATION>>,
                                 <<EXPLORATION, PREPARATION>>,
                                 <<PREPARATION, EXTRACTION>>}]_vars

\* C5, amended: inside a run the phase moves forward through HOOKED,
\* EXPLORATION, EXTRACTION, one step at a time and never backwards;
\* PREPARATION is never entered, and the extraction loop runs in EXTRACTION
C5_PhaseForward ==
    /\ [](phase # PREPARATION)
    /\ [](pc \in {"loop", "call_extract", "inspect"} => phase = EXTRACTION)
    /\ [](pc \in {"stash_prehook", "shim", "snapshot", "install"}
             => phase = HOOKED)
    /\ [][PhaseStep =>
             <<phase, phase'>> \in {<<HOOKED, EXPLORATION>>,
                                    <<EXPLORATION, EXTRACTION>>}]_vars

\* the run is in its extraction loop, in the EXTRACTION phase
C5_Witness ==
    /\ pc = "loop"
    /\ phase = EXTRACTION
    /\ retval # {}

\* C6: when no discover_and_extract call is in progress the phase is what it
\* was before the call (unset), also after an interrupted uninstall; when no
\* extract_firstparty call is in progress no registry is active and the
\* marker is unset
C6_ScopedReset ==
    /\ pc = "idle" => phase = PhaseUnset /\ phase = ctxToken
    /\ efStack = <<>> => ~registry.active /\ moduleToInspect = NoName

\* a run has ended by an interrupt of uninstall, after an inspection that
\* ended by an exception
C6_Witness ==
    /\ pc = "idle"
    /\ exc = "Interrupted"
    /\ inspected # {}
    /\ inspected \ retval # {}
    /\ HasExtractionLoader(metaPath)

\* an install call is made: by discover_and_extract, or by the host
RunInstallStep == pc = "install" /\ pc' # "install"
HostInstallStep == pc = "idle" /\ pc' = "idle" /\ apiResult' # apiResult

\* C7: install raises exactly when an extraction loader is in the chain, and
\* then the chain is unchanged; otherwise it puts the loader first
C7_InstallExclusive ==
    /\ [][RunInstallStep =>
             IF HasExtractionLoader(metaPath)
             THEN metaPath' = metaPath /\ exc' = "RuntimeError"
                  /\ pc' = "uninstall"
             ELSE metaPath' = <<Self>> \o metaPath /\ exc' = "none"
                  /\ pc' = "begin_exploration"]_vars
    /\ [][HostInstallStep =>
             IF HasExtractionLoader(metaPath)
             THEN metaPath' = metaPath /\ apiResult' = "RuntimeError"
             ELSE metaPath' = <<HostLoader>> \o metaPath
                  /\ apiResult' = "installed"]_vars

\* install has raised inside a run because the host's loader was installed
C7_Witness ==
    /\ pc = "uninstall"
    /\ phase = HOOKED
    /\ exc = "RuntimeError"
    /\ metaPath = <<HostLoader, PathFinder>>

\* an activation is tried while a registry is active
ReentrantActivation ==
    pc = "inspect" /\ apiResult # "RuntimeError"
    /\ apiResult' = "RuntimeError"

\* C8: no registry is ever activated over an active one (the token of every
\* activation is the unset value), and an activation that is tried while a
\* registry is active raises and leaves that registry active and unchanged
C8_SingleActiveRegistry ==
    /\ [](\A i \in 1..Len(efStack) : ~efStack[i].registry_token.active)
    /\ [][ReentrantActivation =>
             /\ registry.active
             /\ registry' = registry
             /\ efStack' = efStack]_vars

\* an activation has raised while the active registry had entries
C8_Witness ==
    /\ pc = "inspect"
    /\ apiResult = "RuntimeError"
    /\ registry.active
    /\ registry.entries["o1"] = Tombstone
    /\ registry.entries["o2"] # MISSING

\* the entry the conflict rule gives for a read with this origin
ConflictRule(existing, origin) ==
    IF existing = MISSING THEN origin
    ELSE IF existing = origin THEN origin
    ELSE Tombstone

\* C9: after a tracked read of an object through either wrapper the entry of
\* the object is the origin if it had none, is unchanged if it was the same
\* origin, and is the tombstone if it was another origin (or the tombstone);
\* the other entries are unchanged
C9_ConflictRule ==
    lastAccess.valid =>
        LET i == IdOf(lastAccess.unit, lastAccess.attr)
            o == Origin(lastAccess.unit, lastAccess.attr)
        IN  /\ registry.active
            /\ registry.entries =
                 [lastAccess.prior EXCEPT ![i] = ConflictRule(@, o)]

\* an object recorded from one origin has been read from another origin
\* through the delegating wrapper: its entry is the tombstone
C9_Witness ==
    /\ lastAccess.valid
    /\ lastAccess.variant = "track_wrapped"
    /\ lastAccess.prior["o1"] = Origin(PKGB, "K")
    /\ lastAccess.unit = APP
    /\ registry.entries["o1"] = Tombstone

\* the scenario of C10: stubs enabled, and of pkg.a and pkg.b the allowlist
\* names pkg.a alone
AllowlistScenario ==
    /\ cfg.enable_stubs
    /\ cfg.global_allowlist.present
    /\ cfg.global_allowlist.names \cap {PKGA, PKGB} = {PKGA}

BlocklistedImport ==
    /\ extracted.returned
    /\ ~cfg.global_allowlist.present
    /\ extracted.last_import.unit \in cfg.firstparty_blocklist
    /\ PackageName(extracted.last_import.unit) \in cfg.firstparty_packages
    /\ extracted.last_import.unit # extracted.name

\* C11: the name the inspected module has imported from a blocklisted
\* first-party module is bound to the real object, and the registry attached
\* to the inspected module maps the identity of that object to the
\* blocklisted module and the attribute name
C11_BlocklistedImportTracked ==
    BlocklistedImport =>
        LET i == extracted.last_import
        IN  /\ i.value = "real"
            /\ extracted.tracking_registry[IdOf(i.unit, i.attr)]
                  = Origin(i.unit, i.attr)

\* the kinds of module object the hook builds: placeholders, tracking
\* wrappers, the module under inspection and the fake _typeshed
HookBuilt ==
    {"stub", "track_wrapped", "track_firstparty", "inspect", "typeshed"}

\* C12: when the extraction loop has cleaned up and calls extract_firstparty
\* for the next module, no placeholder or wrapper built before (in the
\* exploration or in an earlier inspection) is left in sys.modules to be
\* served to an import; every wrapper in sys.modules during an inspection is
\* what find_spec answers for its name in that inspection
C12_NoStaleWrapper ==
    /\ pc = "call_extract" =>
          \A n \in Names : sysModules[n] \notin HookBuilt
    /\ pc = "inspect" =>
          \A n \in Names :
              sysModules[n] \in HookBuilt \ {"typeshed"} =>
                  LET spec == FindSpec(cfg, stashRaw, phase,
                                       moduleToInspect, n)
                  IN  spec.outcome = "spec"
                      /\ sysModules[n] = ExecModule(spec)

\* C13: a find_spec call that completes answers with exactly one of bypass
\* (no spec, no strategy), STUB, TRACK and INSPECT; the module an import
\* initializes with the spec carries that strategy as its tag (a module
\* whose initialization raised is discarded), and the module under
\* inspection carries INSPECT once its first pass has ended
C13_OneStrategy ==
    LET r == lastResolve
    IN  /\ r.fullname # NoName /\ r.spec.outcome = "None" =>
              r.answer = "bypass" /\ r.spec.strategy = "none"
        /\ r.spec.outcome = "spec" =>
              /\ r.answer \in {STUB, TRACK, INSPECT}
              /\ r.spec.strategy = r.answer
              /\ r.answer = INSPECT => r.fullname = r.inspecting
        /\ ~r.direct /\ r.spec.outcome = "spec" /\ r.answer # INSPECT
              /\ r.tag # "discarded" => r.tag = r.answer
        /\ r.tag \notin {"untagged", "discarded"} => r.tag = r.answer
        /\ r.tag = "discarded" =>
              r.answer = TRACK /\ failure.kind \in {"none", "wrapper"}
        /\ extracted.metadata # "none" =>
              /\ extracted.tag = INSPECT
              /\ Resolution(extracted.spec) = INSPECT

\* during the second pass of an inspection, whose module carries the INSPECT
\* tag, an import was resolved to TRACK and the wrapper carries TRACK
C13_Witness ==
    /\ pc = "inspect"
    /\ extracted.tag = INSPECT
    /\ TopFrame.stage = "pass2"
    /\ ~lastResolve.direct
    /\ lastResolve.answer = TRACK
    /\ lastResolve.tag = TRACK
    /\ sysModules[lastResolve.fullname] \in
          {"track_wrapped", "track_firstparty"}

\* C14: in PREPARATION or EXTRACTION, find_spec called outside
\* extract_firstparty for the first-party module that _MODULE_TO_INSPECT
\* marks, the module being in module_stash_raw, answers with a delegated spec
\* of the STUB strategy and does not raise
C14_DirectImportStubbed ==
    LET r == lastResolve
    IN  /\ r.direct
        /\ r.phase \in {PREPARATION, EXTRACTION}
        /\ r.fullname # NoName
        /\ r.fullname = r.inspecting
        /\ PackageName(r.fullname) \in cfg.firstparty_packages
        /\ r.stashed
        => /\ r.answer = STUB
           /\ r.spec.delegated

\* the top-level package of n is a standard-library module or is in
\* NOHOOK_PACKAGES
AlwaysBypassed(n) ==
    \/ PackageName(n) \in StdlibModuleNames
    \/ PackageName(n) \in NOHOOK_PACKAGES

ThirdpartyStubbed(n) ==
    /\ UseStubStrategy(cfg, n) = "True"
    /\ PackageName(n) \notin cfg.firstparty_packages

\* C16: for a name the stubs configuration stubs and whose package is not
\* first-party, find_spec answers in every phase, and with no phase set, a
\* spec with the STUB strategy whose loader state is not delegated and whose
\* submodule_search_locations is a list
C16_ThirdpartyAlwaysStub ==
    LET r == lastResolve
    IN  r.fullname # NoName /\ ThirdpartyStubbed(r.fullname) =>
            /\ r.answer = STUB
            /\ r.spec.outcome = "spec"
            /\ ~r.spec.delegated
            /\ r.spec.submodule_search_locations = "[]"
            /\ ~r.direct => r.tag = STUB

\* the stub spec was answered to a call made with no phase set
C16_Witness ==
    /\ lastResolve.fullname = APP
    /\ ThirdpartyStubbed(APP)
    /\ lastResolve.answer = STUB
    /\ lastResolve.direct
    /\ lastResolve.phase = PhaseUnset

\* find_spec reaches its phase branch for n: n is neither bypassed nor a
\* third-party module that is stubbed unconditionally
PhaseDependent(n) ==
    /\ UseStubStrategy(cfg, n) # "None"
    /\ ~ThirdpartyStubbed(n)

\* C17 as stated: for a name that reaches the phase branch, find_spec answers
\* with a spec exactly when the phase is PREPARATION or EXTRACTION, and
\* answers None without raising in EXPLORATION and in HOOKED
C17_OverrideIffPhase ==
    LET r == lastResolve
    IN  r.fullname # NoName /\ PhaseDependent(r.fullname)
        /\ r.phase # PhaseUnset =>
            /\ r.spec.outcome = "spec" <=>
                  r.phase \in {PREPARATION, EXTRACTION}
            /\ r.phase \notin {PREPARATION, EXTRACTION} =>
                  r.answer = "bypass"

\* C17, amended: for a name that reaches the phase branch, find_spec answers
\* with a spec exactly when the phase is PREPARATION or EXTRACTION and the
\* name is in module_stash_raw; in those phases it raises KeyError for a
\* name that is not in module_stash_raw; in EXPLORATION and in HOOKED it
\* answers None; with no phase set it raises LookupError
C17_OverrideIffPhaseAndStashed ==
    LET r == lastResolve
    IN  r.fullname # NoName /\ PhaseDependent(r.fullname) =>
            /\ r.spec.outcome = "spec" <=>
                  r.phase \in {PREPARATION, EXTRACTION} /\ r.stashed
            /\ r.phase \in {PREPARATION, EXTRACTION} /\ ~r.stashed =>
                  r.answer = "KeyError"
            /\ r.phase \in {EXPLORATION, HOOKED} => r.answer = "bypass"
            /\ r.phase = PhaseUnset => r.answer = "LookupError"

\* find_spec was called in the EXTRACTION phase for a first-party module
\* that is not in module_stash_raw, and raised KeyError
C17_Witness ==
    /\ lastResolve.fullname = PKGA
    /\ PhaseDependent(PKGA)
    /\ lastResolve.phase = EXTRACTION
    /\ ~lastResolve.stashed
    /\ lastResolve.answer = "KeyError"

C19_UninstallIdempotent ==
    [][Uninstall \/ DirectUninstall =>
          /\ ~HasExtractionLoader(metaPath')
          /\ \A i \in 1..Len(metaPath') : metaPath'[i] = PathFinder
          /\ ~HasExtractionLoader(metaPath) =>
                /\ metaPath' = metaPath
                /\ sysModules' = sysModules
          /\ apiResult' = "uninstall_again" =>
                /\ metaPath' = metaPath
                /\ sysModules' = sysModules
      ]_vars

\* the host has called uninstall twice in a row after a run, and a module
\* outside the standard library is still loaded
C19_Witness ==
    /\ pc = "idle"
    /\ runs > 0
    /\ apiResult = "uninstall_again"
    /\ ~HasExtractionLoader(metaPath)
    /\ \E n \in LoadedNames(sysModules) :
          ~AlwaysBypassed(n) /\ n \notin cfg.unpurgeable

C21_FailurePropagates ==
    [][(RunExit /\ failure.kind # "none") =>
          /\ failure.kind \in {"pass1", "pass2", "wrapper"}
          /\ failure.unit \in failure.logged
          /\ exc' # "none"
          /\ failure.kind # "wrapper" => failure.unit \notin retval'
          /\ ~HasExtractionLoader(metaPath')
          /\ \A n \in Names :
                stashPrehook[n] # "absent" => sysModules'[n] = stashPrehook[n]
      ]_vars

\* the re-exec of a tracking wrapper has raised in the second pass of an
\* inspection, after another module had been extracted, and the run is
\* about to leave discover_and_extract
C21_Witness ==
    /\ pc = "exit"
    /\ failure.kind = "wrapper"
    /\ failure.unit \in failure.logged
    /\ exc = "Exception"
    /\ retval # {}
    /\ ~HasExtractionLoader(metaPath)
    /\ \E n \in Names : stashPrehook[n] # "absent"

\* C22 as stated: with an allowlist present, use_stub_strategy answers True
\* (stub) exactly when the name is in the allowlist, whatever the other
\* rules say
C22_AllowlistOverridesAll ==
    apiResult = "use_stub_strategy" /\ cfg.global_allowlist.present =>
        (lastResolve.answer = "True"
            <=> lastResolve.fullname \in cfg.global_allowlist.names)

\* C22, amended: with an allowlist present, a name whose package is in the
\* standard library or in NOHOOK_PACKAGES is bypassed (None) even when it is
\* in the allowlist, and with stubs disabled every other name is tracked
\* (False); otherwise the answer is True exactly when the name is in the
\* allowlist and False when it is not, whatever the two blocklists hold
C22_AllowlistOverridesBlocklists ==
    apiResult = "use_stub_strategy" /\ cfg.global_allowlist.present =>
        LET n == lastResolve.fullname
            bypassed == \/ PackageName(n) \in StdlibModuleNames
                        \/ PackageName(n) \in NOHOOK_PACKAGES
        IN  lastResolve.answer =
                IF bypassed THEN "None"
                ELSE IF ~cfg.enable_stubs THEN "False"
                ELSE IF n \in cfg.global_allowlist.names THEN "True"
                ELSE "False"

\* the policy has answered True for pkg.a, which is in the allowlist, on
\* the first-party blocklist, and of a package on the third-party blocklist
C22_Witness ==
    /\ apiResult = "use_stub_strategy"
    /\ cfg.enable_stubs
    /\ cfg.global_allowlist.present
    /\ lastResolve.fullname = PKGA
    /\ PKGA \in cfg.global_allowlist.names
    /\ PKGA \in cfg.firstparty_blocklist
    /\ "pkg" \in cfg.thirdparty_blocklist
    /\ lastResolve.answer = "True"

\* the step is an import of n that binds the name to a stub module made for
\* this import
BuildsStub(n) ==
    /\ sysModules[n] = "absent"
    /\ sysModules'[n] = "stub"
    /\ pc' = pc
    /\ lastResolve'.fullname = n
    /\ lastResolve'.answer = STUB

\* C23 as stated: a stub module is built for a name at most once in a run
\* (every later resolution of the name gets the module built the first
\* time)
C23_StubBuiltOnce ==
    [][\A n \in Names :
          BuildsStub(n) => n \notin stubsBuilt
      ]_vars

\* C23, amended: a stub module stays bound to its name, and is what every
\* import of the name gets, until the end of the inspection it was built
\* in, except that the start of the second pass binds _typeshed to a new
\* stub of its own; the cleanup before each inspection removes a stub from
\* sys.modules unless its name is in UNPURGEABLE_MODULES, and the next
\* resolution of the name builds a new module. Only for a name in
\* UNPURGEABLE_MODULES is the stub built once per run
C23_StubPerInspection ==
    [][\A n \in Names :
          /\ BuildsStub(n)
                => /\ n \in stubsBuilt'
                   /\ n \in stubsBuilt => n \notin cfg.unpurgeable
          /\ sysModules[n] = "stub" /\ pc = "inspect" /\ pc' = "inspect"
                => sysModules'[n] =
                      IF n = TYPESHED /\ FirstPassDone
                      THEN "typeshed" ELSE "stub"
          /\ sysModules[n] = "stub" /\ pc = "loop" /\ pc' = "call_extract"
                => sysModules'[n] =
                      IF n \in cfg.unpurgeable THEN "stub" ELSE "absent"
      ]_vars

\* a second inspection of the run is under way and has imported a name
\* that resolved to STUB, for which a stub had been built before the
\* cleanup that preceded this inspection
C23_Witness ==
    /\ pc = "inspect"
    /\ inspected # {}
    /\ \E n \in Names \ cfg.unpurgeable :
          /\ n \in stubsBuilt
          /\ sysModules[n] = "stub"
          /\ lastResolve.fullname = n
          /\ lastResolve.answer = STUB
          /\ lastResolve.inspecting \notin inspected

\* C24: when the second pass ends, every key the first pass had bound in
\* the namespace of the inspected module is bound to the same first-pass
\* object, and the keys added are exactly the keys the second pass bound
\* that the first pass had not; when the second pass raises, the namespace
\* is as the first pass left it
C24_SecondPassMerge ==
    [][/\ SecondPassDone =>
             LET before == extracted.namespace
                 after == extracted'.namespace
                 bound(ns) == {k \in Keys : ns[k] # "unbound"}
             IN  /\ bound(before) = FirstPassNames(TopFrame.name)
                 /\ \A k \in bound(before) : after[k] = "pass1"
                 /\ bound(after) \ bound(before)
                       = SecondPassNames(TopFrame.name)
                            \ FirstPassNames(TopFrame.name)
                 /\ \A k \in bound(after) \ bound(before) :
                       after[k] = "pass2"
       /\ failure'.kind = "pass2" /\ failure.kind = "none" =>
             /\ failure'.namespace = extracted.namespace
             /\ \A k \in Keys :
                   failure'.namespace[k] =
                       IF k \in FirstPassNames(failure'.unit)
                       THEN "pass1" ELSE "unbound"
      ]_vars

\* the second pass of pkg.a has ended: K and E hold the objects of the
\* first pass, and T, bound only in the second pass, has been added
C24_Witness ==
    /\ extracted.returned
    /\ extracted.name = PKGA
    /\ extracted.namespace =
          [k \in Keys |-> IF k = "T" THEN "pass2" ELSE "pass1"]

\* C25: the tracking registry attached to the module extract_firstparty
\* returns is the registry that was active while the module was inspected:
\* it holds every entry written in the first and in the second pass, and
\* nothing else
C25_AttachedRegistryIsActive ==
    [][SecondPassDone =>
          /\ registry.active
          /\ extracted'.tracking_registry = registry.entries
      ]_vars

\* C26: _stash_prehook_modules and _shim_dataclasses stash the module
\* objects they take out of sys.modules; uninstall runs before the restore;
\* and when discover_and_extract returns or raises, every stashed name,
\* dataclasses included, is bound in sys.modules to the stashed object
C26_PrehookStashRestored ==
    [][/\ StashPrehookModules =>
             \A n \in Names :
                 sysModules[n] # "absent" /\ ~Bypassed(n)
                     => stashPrehook'[n] = sysModules[n]
       /\ ShimDataclasses => stashPrehook'[DC] = sysModules[DC]
       /\ (pc = "uninstall" /\ pc' # pc) => pc' = "exit"
       /\ (pc = "exit" /\ pc' # pc) =>
             /\ pc' = "idle"
             /\ \A n \in Names :
                   stashPrehook[n] # "absent"
                       => sysModules'[n] = stashPrehook[n]
       /\ pc' = "idle" /\ runs' > 0 =>
             \A n \in Names :
                 stashPrehook'[n] # "absent"
                     => sysModules'[n] = stashPrehook'[n]
      ]_vars

\* a run that stashed pkg.a and dataclasses has raised after the inspection
\* had imported pkg.a again, and both names are bound to the stashed objects
C26_Witness ==
    /\ AfterRun
    /\ exc = "Exception"
    /\ stashPrehook[PKGA] = "orig"
    /\ sysModules[PKGA] = "orig"
    /\ stashPrehook[DC] = "orig"
    /\ sysModules[DC] = "orig"
    /\ stashRaw[PKGA] # "absent"

\* C27: the dirty set of the run's loader is the loaded names minus the
\* bypassed names (standard library and NOHOOK_PACKAGES), minus
\* known_clean_modules, minus UNPURGEABLE_MODULES; the cleanup before each
\* inspection removes exactly that set, and neither it nor the cleanup of
\* uninstall removes a name that is known clean, bypassed or unpurgeable
C27_DirtySet ==
    [][LET dirty == {n \in Names :
                        /\ sysModules[n] # "absent"
                        /\ ~Bypassed(n)
                        /\ n \notin knownClean
                        /\ n \notin cfg.unpurgeable}
           removed == {n \in Names :
                          sysModules[n] # "absent" /\ sysModules'[n] = "absent"}
       IN  /\ GetAllDirtyModules(cfg, sysModules, knownClean) = dirty
           /\ (pc = "loop" /\ pc' = "call_extract") => removed = dirty
           /\ (pc = "uninstall" /\ pc' = "exit") =>
                 /\ HasExtractionLoader(metaPath) => dirty \subseteq removed
                 /\ \A n \in removed :
                       /\ n \notin knownClean
                       /\ ~Bypassed(n)
                       /\ n \notin cfg.unpurgeable
      ]_vars

\* the cleanup before an inspection has run while a standard-library module
\* loaded during the run, a known-clean module and an unpurgeable stub were
\* in sys.modules, and all three are still there
C27_Witness ==
    /\ pc = "call_extract"
    /\ sysModules[JSON] = "real"
    /\ JSON \notin knownClean
    /\ PYTEST \in knownClean
    /\ sysModules[PYTEST] # "absent"
    /\ \E n \in cfg.unpurgeable : sysModules[n] = "stub"
    /\ inspected # {}

\* C28: typing.TYPE_CHECKING is False during the first pass, True during
\* the second pass, and False whenever no inspection is running, after a
\* second pass that returned or raised included; the re-exec of a tracking
\* wrapper runs the wrapped source with the flag False and leaves the flag
\* as it found it, also when the wrapped source raises
C28_TypeCheckingFlag ==
    [][/\ pc' = "inspect" =>
             typeChecking' = (efStack'[Len(efStack')].stage = "pass2")
       /\ pc' # "inspect" => ~typeChecking'
       /\ failure'.kind # "none" => ~failure'.flag_after
       /\ \A n \in Names :
             LET x == Reexec(lastResolve'.spec, typeChecking)
             IN  (InspecteeImport(n) \/ WrapperRaise(n)) /\ x.ran =>
                    /\ ~x.flag_exec
                    /\ x.flag_after = typeChecking
                    /\ pc' = "inspect" => typeChecking' = typeChecking
      ]_vars

\* the second pass has imported a tracked first-party module, whose source
\* was re-exec'd, and typing.TYPE_CHECKING is True again
C28_Witness ==
    /\ pc = "inspect"
    /\ TopFrame.stage = "pass2"
    /\ typeChecking
    /\ lastResolve.existing_typecheck_flag
    /\ lastResolve.answer = TRACK
    /\ lastResolve.spec.is_firstparty
    /\ sysModules[lastResolve.fullname] = "track_firstparty"

\* C29: in PREPARATION or EXTRACTION, find_spec for a name that is not
\* bypassed, is first-party or is not stubbed, and is not in
\* module_stash_raw raises KeyError, whichever of INSPECT, STUB and TRACK
\* _get_delegated_spec had chosen: no spec is returned and no module is
\* made, and inside a run the import raises and nothing is bound to the name
C29_MissingRawRaises ==
    LET r == lastResolve
        n == r.fullname
    IN  /\ n # NoName
        /\ r.phase \in {PREPARATION, EXTRACTION}
        /\ ~AlwaysBypassed(n)
        /\ \/ PackageName(n) \in cfg.firstparty_packages
           \/ UseStubStrategy(cfg, n) = "False"
        /\ ~r.stashed
        => /\ r.answer = "KeyError"
           /\ r.spec.outcome = "KeyError"
           /\ r.spec.delegated_module = "absent"
           /\ r.spec.strategy =
                 IF n = r.inspecting THEN INSPECT
                 ELSE IF UseStubStrategy(cfg, n) = "True" THEN STUB
                 ELSE TRACK
           /\ r.tag = "untagged"
           /\ ~r.direct /\ pc \notin {"idle", "exit"} =>
                 /\ exc = "KeyError"
                 /\ sysModules[n] = "absent"
                 /\ n \notin stubsBuilt

\* find_spec was called in the PREPARATION phase for a first-party module
\* that the allowlist stubs and that is not in module_stash_raw, and raised
\* KeyError
C29_Witness ==
    /\ lastResolve.fullname = PKGA
    /\ lastResolve.phase = PREPARATION
    /\ "pkg" \in cfg.firstparty_packages
    /\ UseStubStrategy(cfg, PKGA) = "True"
    /\ lastResolve.spec.strategy = STUB
    /\ stashRaw[PKGA] = "absent"
    /\ ~lastResolve.stashed
    /\ lastResolve.answer = "KeyError"
    /\ lastResolve.spec.outcome # "spec"

\* C30: the uninstall of discover_and_extract removes every extraction
\* loader from sys.meta_path, its own or not, keeps the other finders in
\* their order, and leaves no dirty module of any removed loader in
\* sys.modules; a call whose install raised RuntimeError because the host's
\* loader was in the chain removes the host's loader
C30_UninstallRemovesEveryLoader ==
    [][Uninstall =>
          LET loaders == {i \in 1..Len(metaPath) :
                             IsExtractionLoader(metaPath[i])}
          IN  /\ \A i \in 1..Len(metaPath') :
                    ~IsExtractionLoader(metaPath'[i])
              /\ metaPath' = SelectSeq(metaPath,
                                 LAMBDA f : ~IsExtractionLoader(f))
              /\ \A i \in loaders :
                    \A n \in GetAllDirtyModules(cfg, sysModules,
                                                metaPath[i].known_clean) :
                        sysModules'[n] = "absent"
              /\ exc = "RuntimeError" /\ phase = HOOKED =>
                    /\ metaPath = <<HostLoader, PathFinder>>
                    /\ metaPath' = <<PathFinder>>
      ]_vars

\* the host had installed a loader of its own, a discover_and_extract call
\* has failed in install and has run uninstall: the host's loader is gone
C30_Witness ==
    /\ pc = "exit"
    /\ exc = "RuntimeError"
    /\ phase = HOOKED
    /\ knownClean # {}
    /\ stashPrehook[DC] = "orig"
    /\ metaPath = <<PathFinder>>
====
